---- MODULE Spec2Model ----
(***************************************************************************)
(* Particle Dance: the particle store, the field simulator, the effect     *)
(* operators and the render cache of ParticleSystem, together with the     *)
(* application's viewport resize handler.                                  *)
(*                                                                         *)
(* Numbers.  JavaScript numbers are carried in fixed point: a length, a    *)
(* velocity, an angle in degrees or a force is an integer count of         *)
(* 1/Scale.  A quotient is rounded toward zero (TDiv) and a square root    *)
(* is rounded up (MathSqrt).  Squared distances are carried at 1/100 px    *)
(* (SqScale) so that they fit the integer range.  IEEE round-to-nearest is *)
(* not represented: what is checked is the arithmetic of the code over     *)
(* the reals, at the resolution 1/Scale.  The only non-finite value the    *)
(* code can produce from finite inputs, 0/0, is the value NaN below.       *)
(*                                                                         *)
(* Random draws (Math.random) and the clock (performance.now) are          *)
(* nondeterministic choices from small sets.  Colour strings, saturation,  *)
(* alpha and glow intensity play no part in any operation but drawing      *)
(* and are not carried.                                                    *)
(***************************************************************************)
EXTENDS Integers, Sequences, FiniteSets, TLC

VARIABLES
    particles,        \* ParticleSystem.particles: sequence of particle records
    particleCount,    \* ParticleSystem.particleCount (nominal count)
    nextId,           \* number of particles ever constructed (insertion stamp)
    canvasW, canvasH, \* canvas.width, canvas.height (device pixels, integers)
    mouseX, mouseY,   \* anchor position (fixed point)
    mouseActive,      \* anchor active flag
    mode,             \* "attract" | "repel" | "swirl"
    forceStrength,    \* fixed point
    bgBrightness,     \* fixed point
    bgDirection,      \* 1 | -1
    performanceMode,  \* render tier flag
    lastBgBrightness, \* ParticleSystem._lastBgBrightness (cache key)
    bgGradient,       \* ParticleSystem._bgGradient: what the cached gradient was built from
    painted,          \* what the last render filled the background with
    cursorVisible,    \* ParticleSystem.cursorVisible
    app,              \* fields of ParticleDanceApp: [mode, handTrackingEnabled, hands,
                      \* recorder]
    loop,             \* the animation loop: [started, pending, threw]
    lastOp,           \* the operation that produced this state
    lastArg,          \* its argument, where a property needs it (burst count, gesture index)
    prev,             \* the store, canvas size and nextId that operation started from
    steps             \* operations performed so far

simVars == <<particles, particleCount, nextId, canvasW, canvasH, mouseX, mouseY,
             mouseActive, mode, forceStrength, bgBrightness, bgDirection,
             performanceMode>>
renderVars == <<lastBgBrightness, bgGradient, painted>>
hostVars == <<cursorVisible, app, loop>>
histVars == <<lastOp, lastArg, prev, steps>>
vars == <<simVars, renderVars, hostVars, histVars>>

-----------------------------------------------------------------------------
(* Bounds of the model *)

MaxSteps == 3
MaxBurst == 3
\* recordings started, chunks one recording emits before it is stopped,
\* callbacks fired, and clock ticks, in a run of the recorder
MaxRecordings == 2
MaxChunks == 1
MaxLog == 5
MaxClock == 4
\* ambient drones started and fade-out timers pending in a run of the audio system
MaxAmbient == 4
MaxTimers == 4
\* calls of smoothGesture in a run of the hand tracker
MaxCalls == 7
\* ticks in a run of the breathing background
MaxTicks == 70
\* result frames in a run of the hand tracker
MaxFrames == 4
\* calls of HandTracker.start()
MaxStarts == 2
\* seconds that pass during the tutorial
MaxSeconds == 3

-----------------------------------------------------------------------------
(* Fixed-point arithmetic *)

Scale == 10 * 10 * 10
\* one square pixel, in the unit squared distances are carried in
SqScale == 100 * 100

NaN == 0 - 2 * Scale * Scale * Scale + 1

IsNaN(a) == a = NaN

Abs(a) == IF a < 0 THEN 0 - a ELSE a

Px(n) == n * Scale

\* a / b for b > 0, rounded toward zero
TDiv(a, b) == IF a >= 0 THEN a \div b ELSE 0 - ((0 - a) \div b)

\* a + b, a * b / c and comparisons with NaN propagation (JavaScript semantics)
Add(a, b) == IF IsNaN(a) \/ IsNaN(b) THEN NaN ELSE a + b
Sub(a, b) == IF IsNaN(a) \/ IsNaN(b) THEN NaN ELSE a - b
Lt(a, b) == ~IsNaN(a) /\ ~IsNaN(b) /\ a < b
Gt(a, b) == ~IsNaN(a) /\ ~IsNaN(b) /\ a > b

\* x * (num / den): 0/0 is NaN, and NaN times anything is NaN
ScaleBy(x, num, den) ==
    IF den = 0 \/ IsNaN(x) THEN NaN ELSE TDiv(x * num, den)

RECURSIVE SqrtIter(_, _, _)
SqrtIter(n, lo, hi) ==
    IF hi - lo <= 1 THEN lo
    ELSE LET mid == (lo + hi) \div 2
         IN IF mid * mid <= n THEN SqrtIter(n, mid, hi) ELSE SqrtIter(n, lo, mid)

FloorSqrt(n) == SqrtIter(n, 0, 46341)

\* Math.sqrt, rounded up
MathSqrt(n) == LET f == FloorSqrt(n) IN IF f * f = n THEN f ELSE f + 1

\* Math.sin and Math.cos at whole degrees, in 1/Scale
SinTab == <<0, 17, 35, 52, 70, 87, 105, 122, 139, 156, 174, 191, 208, 225, 242,
            259, 276, 292, 309, 326, 342, 358, 375, 391, 407, 423, 438, 454, 469,
            485, 500, 515, 530, 545, 559, 574, 588, 602, 616, 629, 643, 656, 669,
            682, 695, 707, 719, 731, 743, 755, 766, 777, 788, 799, 809, 819, 829,
            839, 848, 857, 866, 875, 883, 891, 899, 906, 914, 921, 927, 934, 940,
            946, 951, 956, 961, 966, 970, 974, 978, 982, 985, 988, 990, 993, 995,
            996, 998, 999, 999, 1000, 1000>>

SinDeg(d) ==
    LET a == d % 360
    IN IF a <= 90 THEN SinTab[a + 1]
       ELSE IF a <= 180 THEN SinTab[180 - a + 1]
       ELSE IF a <= 270 THEN 0 - SinTab[a - 180 + 1]
       ELSE 0 - SinTab[360 - a + 1]

CosDeg(d) == SinDeg(d + 90)

\* a length in 1/100 px, the unit whose squares are carried
Centi(a) == IF a >= 0 THEN a \div (Scale \div 100) ELSE 0 - ((0 - a) \div (Scale \div 100))

\* the length, in 1/Scale, of a root of a squared distance
FromCenti(c) == c * (Scale \div 100)

-----------------------------------------------------------------------------
(* Program constants *)

frictionPct == 98
maxSpeed == 15
maxSpeedSq == 225
forceRadius == 200
forceRadiusSq == 40000
wrapMargin == 20
waveRadiusSq == 90000
waveInnerSq == 100
chaosRadiusSq == 62500

Modes == {"attract", "repel", "swirl"}

\* dx * dx + dy * dy.  Every threshold a squared distance is compared with is
\* at most waveRadiusSq, so a displacement of 300 px or more on one axis is
\* carried as exactly that threshold, which no comparison passes.
DistSq(dx, dy) ==
    IF IsNaN(dx) \/ IsNaN(dy) THEN NaN
    ELSE IF Abs(dx) >= Px(300) \/ Abs(dy) >= Px(300) THEN waveRadiusSq * SqScale
    ELSE Centi(dx) * Centi(dx) + Centi(dy) * Centi(dy)

-----------------------------------------------------------------------------
(* Particle *)

\* new Particle(x, y, {hue}): rnd holds the constructor's random draws
Particle(id, x, y, hueOpt, rnd) ==
    [id |-> id, x |-> x, y |-> y, vx |-> rnd.vx, vy |-> rnd.vy,
     baseSize |-> rnd.size, size |-> rnd.size,
     hue |-> IF hueOpt # 0 THEN hueOpt ELSE rnd.hue,
     hueSpeed |-> rnd.hueSpeed, lightness |-> rnd.lightness]

SpeedSq(vx, vy) == vx * vx + vy * vy

\* the speed limit of Particle.update: rescale when the squared speed exceeds maxSpeedSq
ClampNone(vx, vy) == <<vx, vy>>

Clamp(vx, vy) ==
    LET speedSq == SpeedSq(vx, vy)
        root == MathSqrt(speedSq)
    IN IF speedSq > maxSpeedSq * Scale * Scale
       THEN <<TDiv(vx * Px(maxSpeed), root), TDiv(vy * Px(maxSpeed), root)>>
       ELSE <<vx, vy>>

Friction(v) == TDiv(v * frictionPct, 100)

\* this.hue = (this.hue + step) % 360
HueStepUnbounded(h, step) == h + step

HueStep(h, step) == (h + step) % Px(360)

\* boundary wrapping of one coordinate against the extent `size` (pixels)
Wrap(c, size) ==
    IF Lt(c, 0 - Px(wrapMargin)) THEN Px(size) + Px(wrapMargin)
    ELSE IF Gt(c, Px(size) + Px(wrapMargin)) THEN 0 - Px(wrapMargin)
    ELSE c

\* Particle.update(width, height)
ParticleUpdate(p, width, height) ==
    LET x1 == Add(p.x, p.vx)
        y1 == Add(p.y, p.vy)
        vx1 == Friction(p.vx)
        vy1 == Friction(p.vy)
        v2 == Clamp(vx1, vy1)
    IN [p EXCEPT !.x = Wrap(x1, width), !.y = Wrap(y1, height),
                 !.vx = v2[1], !.vy = v2[2],
                 !.hue = HueStep(p.hue, p.hueSpeed),
                 !.size = p.baseSize + TDiv(MathSqrt(SpeedSq(vx1, vy1)) * 3, 10)]

-----------------------------------------------------------------------------
(* Field simulator: the force step of ParticleSystem.update *)

\* the guard of the force step: anchor active and 1 < distSq < forceRadiusSq
InFieldNoRadius(p, mx, my, active) ==
    LET distSq == DistSq(Sub(mx, p.x), Sub(my, p.y))
    IN active /\ Gt(distSq, 1 * SqScale)

InField(p, mx, my, active) ==
    LET distSq == DistSq(Sub(mx, p.x), Sub(my, p.y))
    IN active /\ Lt(distSq, forceRadiusSq * SqScale) /\ Gt(distSq, 1 * SqScale)

\* Math.sqrt(distSq), in 1/Scale
Dist(dx, dy) == FromCenti(MathSqrt(DistSq(dx, dy)))

\* force = (1 - dist / forceRadius) * forceStrength
ForceZero(dist, strength) == 0

Force(dist, strength) == TDiv((Px(forceRadius) - dist) * strength, Px(forceRadius))

\* the velocity increment of one mode for displacement (dx, dy) to the anchor:
\* nx = dx / dist, ny = dy / dist
ImpulseWeakRepel(m, dx, dy, strength) ==
    LET dist == Dist(dx, dy)
        force == Force(dist, strength)
    IN IF m = "attract"
       THEN <<TDiv(dx * force, dist), TDiv(dy * force, dist)>>
       ELSE IF m = "repel"
       THEN <<0 - TDiv(dx * force, dist), 0 - TDiv(dy * force, dist)>>
       ELSE LET pullForce == TDiv(force * 3, 10)
                swirlForce == TDiv(force * 8, 10)
            IN <<(0 - TDiv(dy * swirlForce, dist)) + TDiv(dx * pullForce, dist),
                 TDiv(dx * swirlForce, dist) + TDiv(dy * pullForce, dist)>>

ImpulseSwirlSwapped(m, dx, dy, strength) ==
    LET dist == Dist(dx, dy)
        force == Force(dist, strength)
    IN IF m = "attract"
       THEN <<TDiv(dx * force, dist), TDiv(dy * force, dist)>>
       ELSE IF m = "repel"
       THEN LET f == TDiv(force * 15, 10)
            IN <<0 - TDiv(dx * f, dist), 0 - TDiv(dy * f, dist)>>
       ELSE LET pullForce == TDiv(force * 8, 10)
                swirlForce == TDiv(force * 3, 10)
            IN <<(0 - TDiv(dy * swirlForce, dist)) + TDiv(dx * pullForce, dist),
                 TDiv(dx * swirlForce, dist) + TDiv(dy * pullForce, dist)>>

Impulse(m, dx, dy, strength) ==
    LET dist == Dist(dx, dy)
        force == Force(dist, strength)
    IN IF m = "attract"
       THEN <<TDiv(dx * force, dist), TDiv(dy * force, dist)>>
       ELSE IF m = "repel"
       THEN LET f == TDiv(force * 15, 10)
            IN <<0 - TDiv(dx * f, dist), 0 - TDiv(dy * f, dist)>>
       ELSE LET pullForce == TDiv(force * 3, 10)
                swirlForce == TDiv(force * 8, 10)
            IN <<(0 - TDiv(dy * swirlForce, dist)) + TDiv(dx * pullForce, dist),
                 TDiv(dx * swirlForce, dist) + TDiv(dy * pullForce, dist)>>

\* Math.cos(angle) and Math.sin(angle) for angle = Math.atan2(dy, dx), in 1/Scale
CosAtan2(dx, dy) == TDiv(dx * Scale, Dist(dx, dy))

SinAtan2(dx, dy) == TDiv(dy * Scale, Dist(dx, dy))

\* Math.cos(angle + deg) and Math.sin(angle + deg) from the cosine c and sine s of angle
CosPlus(c, s, deg) == TDiv(c * CosDeg(deg) - s * SinDeg(deg), Scale)

SinPlus(c, s, deg) == TDiv(s * CosDeg(deg) + c * SinDeg(deg), Scale)

\* the velocity increment of the angle-based force step (particles.js):
\* angle = atan2(dy, dx), perpAngle = angle + PI / 2
ImpulseAngle(m, dx, dy, strength) ==
    LET force == Force(Dist(dx, dy), strength)
        c == CosAtan2(dx, dy)
        s == SinAtan2(dx, dy)
    IN IF m = "attract"
       THEN <<TDiv(c * force, Scale), TDiv(s * force, Scale)>>
       ELSE IF m = "repel"
       THEN <<TDiv(TDiv((0 - c) * force, Scale) * 15, 10),
              TDiv(TDiv((0 - s) * force, Scale) * 15, 10)>>
       ELSE LET pullForce == TDiv(force * 3, 10)
                swirlForce == TDiv(force * 8, 10)
            IN <<TDiv(CosPlus(c, s, 90) * swirlForce, Scale) + TDiv(c * pullForce, Scale),
                 TDiv(SinPlus(c, s, 90) * swirlForce, Scale) + TDiv(s * pullForce, Scale)>>

\* the loop body of ParticleSystem.update before particle.update
ApplyField(p, mx, my, active, m, strength) ==
    IF InField(p, mx, my, active)
    THEN LET imp == Impulse(m, mx - p.x, my - p.y, strength)
         IN [p EXCEPT !.vx = p.vx + imp[1], !.vy = p.vy + imp[2]]
    ELSE p

\* one iteration of the loop of ParticleSystem.update
UpdateParticle(p, mx, my, active, m, strength, width, height) ==
    ParticleUpdate(ApplyField(p, mx, my, active, m, strength), width, height)

\* background breathing
BreatheStep(b, d) == b + (Scale \div 10) * d

\* a direction that never turns
BreatheDirKept(b, d) == d

BreatheDir(b, d) == IF b > Px(3) THEN 0 - 1 ELSE IF b < 0 THEN 1 ELSE d

-----------------------------------------------------------------------------
(* Particle store *)

\* particles.length >= particleCount * 1.2
AtLimitStrict(len, count) == len * 10 > count * 12

AtLimit(len, count) == len * 10 >= count * 12

\* one iteration of the loop of spawnBurst: construct, evict the oldest at the limit, append
BurstPushNoEvict(ps, count, p) == Append(ps, p)

BurstPushEvictNewest(ps, count, p) ==
    IF AtLimit(Len(ps), count) THEN Append(SubSeq(ps, 1, Len(ps) - 1), p)
    ELSE Append(ps, p)

BurstPush(ps, count, p) ==
    IF AtLimit(Len(ps), count) THEN Append(Tail(ps), p) ELSE Append(ps, p)

BurstParticle(id, i, count, x, y, rnd) ==
    LET angle == TDiv(i * 360, count)
        p == Particle(id, x, y, rnd.hue, rnd)
    IN [p EXCEPT !.vx = TDiv(CosDeg(angle) * rnd.speed, Scale),
                 !.vy = TDiv(SinDeg(angle) * rnd.speed, Scale)]

RECURSIVE BurstLoop(_, _, _, _, _, _, _, _)
BurstLoop(ps, i, count, x, y, rnd, id, pcount) ==
    IF i >= count THEN ps
    ELSE BurstLoop(BurstPush(ps, pcount, BurstParticle(id + i, i, count, x, y, rnd)),
                   i + 1, count, x, y, rnd, id, pcount)

\* ParticleSystem.resize(width, height) against the canvas size (cw, ch) it reads
SystemResize(ps, width, height, cw, ch) ==
    [i \in 1..Len(ps) |->
        [ps[i] EXCEPT !.x = ScaleBy(ps[i].x, width, cw),
                      !.y = ScaleBy(ps[i].y, height, ch)]]

Ids(ps) == [i \in 1..Len(ps) |-> ps[i].id]

-----------------------------------------------------------------------------
(* Inputs: the values random draws, the clock and the callers are taken from *)

\* draws of the Particle constructor and of spawnBurst: vx, vy in [-1, 1),
\* size in [3, 6), hue in [0, 360), hueSpeed in [0.1, 0.3), lightness in [50, 70),
\* speed in [2, 5)
Draws ==
    <<[vx |-> 600, vy |-> 0 - 800, size |-> 3000, hue |-> 123000, hueSpeed |-> 100,
       lightness |-> 50000, speed |-> 2000],
      [vx |-> 0 - 1000, vy |-> 999, size |-> 5999, hue |-> 359900, hueSpeed |-> 299,
       lightness |-> 69000, speed |-> 4999],
      [vx |-> 0, vy |-> 0, size |-> 4500, hue |-> 0, hueSpeed |-> 200,
       lightness |-> 60000, speed |-> 3500]>>

Draw(k) == Draws[(k % Len(Draws)) + 1]

\* Math.random() * extent for the k-th initial particle, in thousandths of the extent
FracX == <<500, 100, 900, 300, 700, 0>>
FracY == <<500, 500, 100, 999, 300, 0>>

Frac(tab, k) == tab[(k % Len(tab)) + 1]

Counts == {1, 5}
Seeds == {0}
\* viewports <<innerWidth, innerHeight, devicePixelRatio>>
Viewports == {<<100, 80, 1>>, <<150, 100, 2>>, <<150, 0, 1>>, <<0, 100, 1>>}
\* anchors: inside the canvas, and outside it
Anchors == {<<Px(75), Px(50)>>, <<0 - Px(40), Px(120)>>}
\* burst origins, inside the canvas and outside it, with the index of the draw
\* used there; bursts of even size go to the first, of odd size to the second
BurstAt == <<(<<Px(75), Px(50), 0>>), (<<Px(330), 0 - Px(30), 1>>)>>
\* gesture.type of a one-hand gesture
GestureTypes == <<"PALM", "FIST", "POINT", "SPREAD", "PINCH", "NEUTRAL">>
\* the mode a gesture asks for
GestureTarget == [PALM |-> "attract", FIST |-> "repel", POINT |-> "swirl"]
\* the size of the burst a gesture spawns at the anchor
spreadBurst == 20
pinchBurst == 5
GestureBurst == [SPREAD |-> spreadBurst, PINCH |-> pinchBurst]
\* options.duration of the recorder, in ms
duration == 5000
\* the step of the clock, in ms
tickMs == duration \div 2
\* palm distances of detectTwoHandGesture, in 1/Scale
mergeDist == 150
expandDist == 500
expandSpan == 300
\* a hand of a frame: palm centre (normalised, in 1/Scale) and smoothed gesture
Hand(x, y, g) == [x |-> x, y |-> y, gesture |-> g]
\* frames of hand results: one hand with each gesture; two hands close
\* together, at a middle distance and far apart
HandFrames ==
    <<(<<Hand(500, 500, "PALM")>>), (<<Hand(500, 500, "FIST")>>),
      (<<Hand(500, 500, "POINT")>>), (<<Hand(400, 300, "SPREAD")>>),
      (<<Hand(400, 300, "PINCH")>>), (<<Hand(400, 300, "NEUTRAL")>>),
      (<<Hand(200, 400, "NEUTRAL"), Hand(300, 400, "NEUTRAL")>>),
      (<<Hand(300, 500, "PALM"), Hand(600, 500, "NEUTRAL")>>),
      (<<Hand(100, 500, "NEUTRAL"), Hand(900, 500, "NEUTRAL")>>)>>
\* gesture.strength
Strengths == {Scale}
Kicks == {<<1999, 0 - 2000>>}
Jitters == {<<999, 0 - 1000>>}
\* performance.now() * 0.003 reduced to whole degrees of phase
Phases == {60}

-----------------------------------------------------------------------------
(* State *)

TypeOK ==
    /\ particleCount \in Nat \ {0}
    /\ nextId \in Nat
    /\ canvasW \in Nat /\ canvasH \in Nat
    /\ mouseActive \in BOOLEAN
    /\ mode \in Modes
    /\ bgDirection \in {1, 0 - 1}
    /\ performanceMode \in BOOLEAN
    /\ cursorVisible \in BOOLEAN
    /\ app.mode \in Modes
    /\ app.handTrackingEnabled \in BOOLEAN
    /\ app.hands.twoHand \in {"none", "MERGE", "EXPAND"}
    /\ app.recorder.isRecording \in BOOLEAN
    /\ app.audio.enabled \in BOOLEAN /\ app.audio.initialized \in BOOLEAN
    /\ app.audio.timers \in Nat /\ app.audio.created \in Nat
    /\ app.soundEnabled \in BOOLEAN /\ app.hasInteracted \in BOOLEAN
    /\ app.recorder.mediaRecorder \in 0..Len(app.recorder.recs)
    /\ loop.started \in BOOLEAN /\ loop.pending \in Nat /\ loop.threw \in BOOLEAN
    /\ steps \in 0..MaxSteps

Snapshot == [particles |-> particles, canvasW |-> canvasW, canvasH |-> canvasH,
             nextId |-> nextId]

\* the ParticleDanceApp constructor
NoHands == [list |-> <<>>, twoHand |-> "none"]
\* the ScreenRecorder constructor; next to its fields the record keeps the
\* MediaRecorder objects created so far (recs), the pending auto-stop timers,
\* the clock in ms and the callbacks fired so far (log)
RecorderConstructed ==
    [supported |-> TRUE, isRecording |-> FALSE, mediaRecorder |-> 0, chunks |-> <<>>,
     recordingTimeout |-> 0, timers |-> {}, recs |-> <<>>, now |-> 0, log |-> <<>>]
\* the AudioSystem constructor; next to its fields the record keeps the number
\* of ambient drones created so far, the oscillators that are started and not
\* stopped (playing) and the number of pending timers of stopAmbient
AudioConstructed ==
    [enabled |-> TRUE, initialized |-> FALSE, ambientOscs |-> <<>>, playing |-> {},
     timers |-> 0, created |-> 0]
\* the HandTracker constructor; next to gestureBuffer the record keeps the
\* landmarks of the hand it looks at, the gesture it returned last, and for each
\* hand id the raw types handed to smoothGesture so far (seen)
NoGesture == [type |-> "none", raw |-> "none", hand |-> "none"]
\* leftHand and rightHand before a hand was seen: null
NoHand == [isLeft |-> FALSE, x |-> 0 - 1, y |-> 0 - 1, gesture |-> "none"]
\* detectTwoHandGesture returning null
NoTwoHand == [type |-> "none", strength |-> 0, cx |-> 0, cy |-> 0]
\* further fields: handsDetected, leftHand and rightHand as in the source; the
\* number of result frames processed, the callbacks fired so far (calls) and
\* the two-hand gesture attached to the last frame; enabled, videoElement (the
\* number of its camera stream, 0 for null) and animationId (the loop whose
\* frame callback was requested last, 0 for null) as in the source, with the
\* camera streams acquired so far, the start() calls that wait for the camera
\* or the video, the processFrame loops alive, and the number of start() calls
TrackerConstructed ==
    [gestureBuffer |-> [left |-> <<>>, right |-> <<>>],
     seen |-> [left |-> <<>>, right |-> <<>>],
     landmarks |-> <<>>, gesture |-> NoGesture,
     handsDetected |-> FALSE, leftHand |-> NoHand, rightHand |-> NoHand,
     frames |-> 0, calls |-> <<>>, twoHandGesture |-> NoTwoHand,
     enabled |-> FALSE, videoElement |-> 0, animationId |-> 0,
     streams |-> <<>>, starts |-> {}, loops |-> {}, started |-> 0]
\* the tutorial state of the ParticleDanceApp constructor, with the number of
\* pending advanceTutorial timers and whether endTutorial has run
TutorialConstructed ==
    [active |-> FALSE, step |-> 1, handDetectedTime |-> 0, completed |-> {},
     timers |-> 0, ended |-> FALSE]
\* lastGesture null is "none"; cues counts the gesture sounds played; now is
\* Date.now() in ms since the page was opened at startMs
AppConstructed ==
    [mode |-> "attract", handTrackingEnabled |-> FALSE, hands |-> NoHands,
     recorder |-> RecorderConstructed, audio |-> AudioConstructed,
     soundEnabled |-> TRUE, hasInteracted |-> FALSE, tracker |-> TrackerConstructed,
     lastGesture |-> "none", cues |-> 0, tutorial |-> TutorialConstructed,
     now |-> 1000, isRecording |-> FALSE, showCameraPrompt |-> TRUE]
\* the animation loop before ParticleSystem.start()
NotStarted == [started |-> FALSE, pending |-> 0, threw |-> FALSE]
NoGradient == [w |-> 0 - 1, h |-> 0 - 1, bright |-> 0 - 1]
\* what a render did: the background it filled (tier, size and brightness of the
\* gradient), the draw calls in order, the gradient objects it created in order,
\* and whether it ended in an exception
NotPainted == [tier |-> "none", w |-> 0 - 1, h |-> 0 - 1, bright |-> 0 - 1,
               ops |-> <<>>, grads |-> <<>>, threw |-> FALSE]

\* ParticleSystem.init(): particleCount particles at random positions, hue i / count * 360
InitParticles(count, w, h, seed) ==
    [k \in 1..count |->
        Particle(k - 1,
                 TDiv(Frac(FracX, k - 1 + seed) * Px(w), Scale),
                 TDiv(Frac(FracY, k - 1 + seed) * Px(h), Scale),
                 TDiv((k - 1) * Px(360), count),
                 Draw(k - 1 + seed))]

\* the ParticleSystem constructor on a canvas of w x h device pixels
SystemConstructed(count, w, h, seed) ==
    /\ particleCount = count
    /\ particles = InitParticles(count, w, h, seed)
    /\ nextId = count
    /\ canvasW = w /\ canvasH = h
    /\ mouseX = TDiv(Px(w), 2) /\ mouseY = TDiv(Px(h), 2)
    /\ mouseActive = FALSE
    /\ mode = "attract"
    /\ forceStrength = Scale \div 2
    /\ bgBrightness = 0
    /\ bgDirection = 1
    /\ performanceMode = FALSE
    /\ lastBgBrightness = 0 - 1
    /\ bgGradient = NoGradient
    /\ painted = NotPainted
    /\ cursorVisible = TRUE
    /\ loop = NotStarted

\* the application after its constructor and init(), before start()
Constructed(count, w, h, seed) ==
    /\ SystemConstructed(count, w, h, seed)
    /\ app = AppConstructed

Init ==
    /\ \E count \in Counts, seed \in Seeds : Constructed(count, 150, 100, seed)
    /\ lastOp = "init" /\ lastArg = 0
    /\ prev = Snapshot
    /\ steps = 0

Did(op, arg) ==
    /\ steps < MaxSteps
    /\ lastOp' = op /\ lastArg' = arg
    /\ prev' = Snapshot
    /\ steps' = steps + 1

-----------------------------------------------------------------------------
(* Operations *)

\* ParticleSystem.setMousePosition(x, y, active)
SetMousePosition ==
    \E a \in Anchors, active \in BOOLEAN :
        /\ mouseX' = a[1] /\ mouseY' = a[2] /\ mouseActive' = active
        /\ Did("setMousePosition", 0)
        /\ UNCHANGED <<particles, particleCount, nextId, canvasW, canvasH, mode,
                       forceStrength, bgBrightness, bgDirection, performanceMode,
                       renderVars, hostVars>>

\* setMode that records the mode in the application only
SetModeAppOnly ==
    \E m \in Modes :
        /\ app' = [app EXCEPT !.mode = m]
        /\ Did("setMode", 0)
        /\ UNCHANGED <<particles, particleCount, nextId, canvasW, canvasH, mouseX,
                       mouseY, mouseActive, mode, forceStrength, bgBrightness,
                       bgDirection, performanceMode, renderVars, cursorVisible, loop>>

\* ParticleDanceApp.setMode(mode), from a mode button or the keys a / r / s:
\* this.mode = mode; this.particles.setMode(mode)
SetMode ==
    \E m \in Modes :
        /\ app' = [app EXCEPT !.mode = m]
        /\ mode' = m
        /\ Did("setMode", 0)
        /\ UNCHANGED <<particles, particleCount, nextId, canvasW, canvasH, mouseX,
                       mouseY, mouseActive, forceStrength, bgBrightness, bgDirection,
                       performanceMode, renderVars, cursorVisible, loop>>

\* what the hand handlers read and write: the anchor, the two mode fields, the
\* store and the force strength
HandState ==
    [mouseX |-> mouseX, mouseY |-> mouseY, mouseActive |-> mouseActive,
     mode |-> mode, appMode |-> app.mode, particles |-> particles,
     nextId |-> nextId, forceStrength |-> forceStrength]

\* a handler that knows no POINT gesture and bursts on SPREAD only
HandleGestureModeNoPoint(st, g) ==
    IF g \in {"PALM", "FIST"}
    THEN [st EXCEPT !.appMode = GestureTarget[g], !.mode = GestureTarget[g]]
    ELSE IF g = "SPREAD"
    THEN [st EXCEPT !.particles = BurstLoop(st.particles, 0, spreadBurst, st.mouseX,
                                           st.mouseY, Draw(1), st.nextId, particleCount),
                    !.nextId = st.nextId + spreadBurst]
    ELSE st

\* ParticleDanceApp.handleGestureMode(gesture) with gesture.type = g
HandleGestureMode(st, g) ==
    IF g \in DOMAIN GestureTarget
    THEN IF st.appMode # GestureTarget[g]
         THEN [st EXCEPT !.appMode = GestureTarget[g], !.mode = GestureTarget[g]]
         ELSE st
    ELSE IF g \in DOMAIN GestureBurst
    THEN [st EXCEPT !.particles = BurstLoop(st.particles, 0, GestureBurst[g], st.mouseX,
                                           st.mouseY, Draw(1), st.nextId, particleCount),
                    !.nextId = st.nextId + GestureBurst[g]]
    ELSE st

\* the handler alone; lastArg is the index of the gesture type in GestureTypes
GestureMode ==
    \E k \in 1..Len(GestureTypes) :
      LET st == HandleGestureMode(HandState, GestureTypes[k]) IN
        /\ Did("gesture", k)
        /\ app' = [app EXCEPT !.mode = st.appMode]
        /\ mode' = st.mode
        /\ particles' = st.particles
        /\ nextId' = st.nextId
        /\ UNCHANGED <<particleCount, canvasW, canvasH, mouseX, mouseY, mouseActive,
                       forceStrength, bgBrightness, bgDirection, performanceMode,
                       renderVars, cursorVisible, loop>>

\* ParticleDanceApp.handleTwoHandGesture(gesture), gesture.strength in (0, 1]
\* MERGE is taken with gesture.center at the canvas centre
TwoHandGesture ==
    /\ \E s \in Strengths :
        \/ /\ mouseX' = TDiv(Px(canvasW), 2) /\ mouseY' = TDiv(Px(canvasH), 2)
           /\ mouseActive' = TRUE
           /\ forceStrength' = TDiv(8 * s, 10)
           /\ lastArg' = 1
        \/ /\ forceStrength' = 0 - TDiv(5 * s, 10)
           /\ UNCHANGED <<mouseX, mouseY, mouseActive>>
           /\ lastArg' = 2
    /\ steps < MaxSteps
    /\ lastOp' = "twoHandGesture" /\ prev' = Snapshot /\ steps' = steps + 1
    /\ UNCHANGED <<particles, particleCount, nextId, canvasW, canvasH, mode,
                   bgBrightness, bgDirection, performanceMode, renderVars, hostVars>>

\* the caller's write of ParticleSystem.performanceMode
SetPerformanceMode ==
    /\ performanceMode' = ~performanceMode
    /\ Did("setPerformanceMode", 0)
    /\ UNCHANGED <<particles, particleCount, nextId, canvasW, canvasH, mouseX, mouseY,
                   mouseActive, mode, forceStrength, bgBrightness, bgDirection,
                   renderVars, hostVars>>

\* the particle loop of update(): every particle advanced by one tick
UpdatedStore ==
    [i \in 1..Len(particles) |->
        UpdateParticle(particles[i], mouseX, mouseY, mouseActive, mode,
                       forceStrength, canvasW, canvasH)]

\* ParticleSystem.update()
Update ==
    /\ bgBrightness' = BreatheStep(bgBrightness, bgDirection)
    /\ bgDirection' = BreatheDir(bgBrightness', bgDirection)
    /\ particles' = UpdatedStore
    /\ Did("update", 0)
    /\ UNCHANGED <<particleCount, nextId, canvasW, canvasH, mouseX, mouseY,
                   mouseActive, mode, forceStrength, performanceMode, renderVars, hostVars>>


\* ParticleSystem.spawnBurst(x, y, count)
SpawnBurst ==
    \E count \in 0..MaxBurst :
      LET at == BurstAt[(count % 2) + 1] IN
        /\ particles' = BurstLoop(particles, 0, count, at[1], at[2], Draw(at[3]), nextId,
                                  particleCount)
        /\ nextId' = nextId + count
        /\ Did("spawnBurst", count)
        /\ UNCHANGED <<particleCount, canvasW, canvasH, mouseX, mouseY, mouseActive, mode,
                       forceStrength, bgBrightness, bgDirection, performanceMode,
                       renderVars, hostVars>>

\* the loop body of waveEffect(x, y) at clock phase `phase` (degrees)
WaveParticle(p, x, y, phase) ==
    LET dx == Sub(p.x, x)
        dy == Sub(p.y, y)
        distSq == DistSq(dx, dy)
    IN IF Lt(distSq, waveRadiusSq * SqScale) /\ Gt(distSq, waveInnerSq * SqScale)
       THEN LET dist == Dist(dx, dy)
                \* dist * 0.02 radians, in degrees
                deg == TDiv(dist * 1146, Scale * Scale)
                wave == TDiv(SinDeg(deg - phase) * 3, 10)
            IN [p EXCEPT !.vx = p.vx + TDiv(dx * wave, dist),
                         !.vy = p.vy + TDiv(dy * wave, dist)]
       ELSE p

\* ParticleSystem.waveEffect(x, y), called at the anchor
WaveEffect ==
    \E phase \in Phases :
        /\ particles' = [i \in 1..Len(particles) |->
                            WaveParticle(particles[i], mouseX, mouseY, phase)]
        /\ Did("waveEffect", 0)
        /\ UNCHANGED <<particleCount, nextId, canvasW, canvasH, mouseX, mouseY,
                       mouseActive, mode, forceStrength, bgBrightness, bgDirection,
                       performanceMode, renderVars, hostVars>>

Min(a, b) == IF a < b THEN a ELSE b

\* the loop body of energyBoost() for random draws (kx, ky) in [-2, 2)
BoostParticle(p, kx, ky) ==
    [p EXCEPT !.vx = p.vx + kx, !.vy = p.vy + ky,
              !.lightness = Min(Px(80), p.lightness + Px(10))]

\* ParticleSystem.energyBoost(): odd and even particles draw differently
EnergyBoost ==
    \E k \in Kicks :
        /\ particles' = [i \in 1..Len(particles) |->
                            IF i % 2 = 1 THEN BoostParticle(particles[i], k[1], k[2])
                            ELSE BoostParticle(particles[i], k[2], k[1])]
        /\ Did("energyBoost", 0)
        /\ UNCHANGED <<particleCount, nextId, canvasW, canvasH, mouseX, mouseY,
                       mouseActive, mode, forceStrength, bgBrightness, bgDirection,
                       performanceMode, renderVars, hostVars>>

\* the loop body of chaosMode(x, y) for random draws (jx, jy) in [-1, 1)
ChaosParticle(p, x, y, jx, jy) ==
    IF Lt(DistSq(Sub(p.x, x), Sub(p.y, y)), chaosRadiusSq * SqScale)
    THEN [p EXCEPT !.vx = p.vx + jx, !.vy = p.vy + jy,
                   !.hue = HueStep(p.hue, Px(5))]
    ELSE p

\* ParticleSystem.chaosMode(x, y), called at the anchor
ChaosMode ==
    \E j \in Jitters :
        /\ particles' = [i \in 1..Len(particles) |->
                            ChaosParticle(particles[i], mouseX, mouseY, j[1], j[2])]
        /\ Did("chaosMode", 0)
        /\ UNCHANGED <<particleCount, nextId, canvasW, canvasH, mouseX, mouseY,
                       mouseActive, mode, forceStrength, bgBrightness, bgDirection,
                       performanceMode, renderVars, hostVars>>

\* the particle positions after the resize handler of ParticleDanceApp.setupCanvas:
\* the canvas already has its new size (cw, ch) when particles.resize(width, height)
\* reads it, and the call is skipped when the old canvas width was 0
HandlerResize(ps, width, height, oldW, oldH, cw, ch) ==
    IF oldW > 0 THEN SystemResize(ps, width, height, cw, ch) ELSE ps

\* the resize handler of ParticleDanceApp.setupCanvas, for a viewport of
\* v[1] x v[2] CSS pixels at device pixel ratio v[3]
Resize ==
    \E v \in Viewports :
        /\ canvasW' = v[1] * v[3]
        /\ canvasH' = v[2] * v[3]
        /\ particles' = HandlerResize(particles, v[1], v[2], canvasW, canvasH,
                                      canvasW', canvasH')
        /\ Did("resize", v[3])
        /\ UNCHANGED <<particleCount, nextId, mouseX, mouseY, mouseActive, mode,
                       forceStrength, bgBrightness, bgDirection, performanceMode,
                       renderVars, hostVars>>

\* Math.round
Round(b) == (b + Scale \div 2) \div Scale

\* a cache that is filled once and never rebuilt
RenderGradientOnce(bright, lastBright, grad, w, h) ==
    IF lastBright = 0 - 1 THEN [w |-> w, h |-> h, bright |-> bright] ELSE grad

\* the background part of render(): the gradient to keep in _bgGradient
RenderGradient(bright, lastBright, grad, w, h) ==
    IF bright # lastBright THEN [w |-> w, h |-> h, bright |-> bright] ELSE grad

\* one draw call: a fill or a stroke of `kind` for particle `id`
\* (the background and the cursor indicator belong to no particle)
DrawOp(kind, id) == [op |-> kind, id |-> id]

Background == DrawOp("background", 0 - 1)

\* one loop over the store drawing `kind` for every particle
Pass(ps, kind) == [i \in 1..Len(ps) |-> DrawOp(kind, ps[i].id)]

Repeat(kind, n) == [i \in 1..n |-> kind]

\* createRadialGradient(p.x, p.y, 0, p.x, p.y, r) throws a TypeError when a
\* coordinate is not a finite number
Finite(p) == ~IsNaN(p.x) /\ ~IsNaN(p.y)

\* the index of the first particle whose glow gradient cannot be created,
\* Len(ps) + 1 when there is none
FirstRejected(ps) ==
    IF \A i \in 1..Len(ps) : Finite(ps[i]) THEN Len(ps) + 1
    ELSE CHOOSE i \in 1..Len(ps) :
             ~Finite(ps[i]) /\ \A j \in 1..(i - 1) : Finite(ps[j])

\* the particle and cursor part of render(): draw calls after the background,
\* gradient objects created, and whether the render threw
RenderDraws(ps, perf, active, visible) ==
    LET k == FirstRejected(ps)
        cursor == IF active /\ visible THEN <<DrawOp("cursor", 0 - 1)>> ELSE <<>>
    IN  IF perf
        THEN [ops |-> Pass(ps, "core") \o cursor, grads |-> <<>>, threw |-> FALSE]
        ELSE IF k > Len(ps)
        THEN [ops |-> Pass(ps, "glow") \o Pass(ps, "core") \o Pass(ps, "bright")
                        \o cursor,
              grads |-> Repeat("glow", Len(ps)), threw |-> FALSE]
        ELSE [ops |-> SubSeq(Pass(ps, "glow"), 1, k - 1),
              grads |-> Repeat("glow", k - 1), threw |-> TRUE]

\* render() of src/web/js/particles.js: one loop drawing glow, core and bright
\* centre of each particle in turn; renderCursor builds a glow gradient
RECURSIVE LoopDraws(_, _, _)
LoopDraws(ps, i, perf) ==
    IF i > Len(ps) THEN [ops |-> <<>>, grads |-> <<>>, threw |-> FALSE]
    ELSE IF perf
    THEN LET rest == LoopDraws(ps, i + 1, perf)
         IN  [rest EXCEPT !.ops = <<DrawOp("core", ps[i].id)>> \o rest.ops]
    ELSE IF ~Finite(ps[i]) THEN [ops |-> <<>>, grads |-> <<>>, threw |-> TRUE]
    ELSE LET rest == LoopDraws(ps, i + 1, perf)
         IN  [rest EXCEPT !.ops = <<DrawOp("glow", ps[i].id), DrawOp("core", ps[i].id),
                                     DrawOp("bright", ps[i].id)>> \o rest.ops,
                          !.grads = <<"glow">> \o rest.grads]

RenderDrawsJs(ps, perf, active) ==
    LET loopd == LoopDraws(ps, 1, perf)
    IN  IF loopd.threw \/ ~active THEN loopd
        ELSE [loopd EXCEPT !.ops = loopd.ops \o <<DrawOp("cursor", 0 - 1)>>,
                           !.grads = loopd.grads \o <<"cursor">>]

\* render() that also advances the background breathing
RenderBreathing ==
    /\ painted' = [NotPainted EXCEPT
                      !.tier = IF performanceMode THEN "performance" ELSE "quality",
                      !.w = canvasW, !.h = canvasH, !.bright = Round(bgBrightness)]
    /\ bgBrightness' = BreatheStep(bgBrightness, bgDirection)
    /\ Did("render", 0)
    /\ UNCHANGED <<particles, particleCount, nextId, canvasW, canvasH, mouseX, mouseY,
                   mouseActive, mode, forceStrength, bgDirection, performanceMode,
                   lastBgBrightness, bgGradient, hostVars>>

\* render() on a store ps with brightness `bright` and the cache (lastBright,
\* grad): the cache it leaves and what it painted
Rendered(ps, bright, lastBright, grad, perf, active, visible, w, h) ==
    LET d == RenderDraws(ps, perf, active, visible)
        g == RenderGradient(Round(bright), lastBright, grad, w, h)
    IN  IF perf
        THEN [last |-> lastBright, grad |-> grad,
              painted |-> [tier |-> "performance", w |-> w, h |-> h, bright |-> 0,
                           ops |-> <<Background>> \o d.ops, grads |-> d.grads,
                           threw |-> d.threw]]
        ELSE [last |-> Round(bright), grad |-> g,
              painted |-> [tier |-> "quality", w |-> g.w, h |-> g.h,
                           bright |-> g.bright, ops |-> <<Background>> \o d.ops,
                           grads |-> (IF Round(bright) # lastBright
                                      THEN <<"background">> ELSE <<>>) \o d.grads,
                           threw |-> d.threw]]

\* ParticleSystem.render()
Render ==
    /\ LET r == Rendered(particles, bgBrightness, lastBgBrightness, bgGradient,
                         performanceMode, mouseActive, cursorVisible, canvasW, canvasH)
       IN  /\ lastBgBrightness' = r.last
           /\ bgGradient' = r.grad
           /\ painted' = r.painted
    /\ Did("render", 0)
    /\ UNCHANGED <<simVars, hostVars>>

\* ParticleSystem.render() of src/web/js/particles.js, which keeps no gradient
RenderParticlesJs ==
    /\ LET d == RenderDrawsJs(particles, performanceMode, mouseActive)
       IN  painted' = [tier |-> IF performanceMode THEN "performance" ELSE "quality",
                       w |-> canvasW, h |-> canvasH,
                       bright |-> IF performanceMode THEN 0 ELSE bgBrightness,
                       ops |-> <<Background>> \o d.ops,
                       grads |-> (IF performanceMode THEN <<>> ELSE <<"background">>)
                                 \o d.grads,
                       threw |-> d.threw]
    /\ Did("render", 0)
    /\ UNCHANGED <<simVars, lastBgBrightness, bgGradient, hostVars>>

\* one run of animate(): update(), render(), then requestAnimationFrame unless
\* render threw; `pending` is the number of frame callbacks already queued
Frame(pending) ==
    /\ bgBrightness' = BreatheStep(bgBrightness, bgDirection)
    /\ bgDirection' = BreatheDir(bgBrightness', bgDirection)
    /\ particles' = UpdatedStore
    /\ LET r == Rendered(particles', bgBrightness', lastBgBrightness, bgGradient,
                         performanceMode, mouseActive, cursorVisible, canvasW, canvasH)
       IN  /\ lastBgBrightness' = r.last
           /\ bgGradient' = r.grad
           /\ painted' = r.painted
           /\ loop' = [started |-> TRUE,
                       pending |-> IF r.painted.threw THEN pending ELSE pending + 1,
                       threw |-> r.painted.threw]
    /\ UNCHANGED <<particleCount, nextId, canvasW, canvasH, mouseX, mouseY,
                   mouseActive, mode, forceStrength, performanceMode, cursorVisible,
                   app>>

\* ParticleSystem.start(), called once by ParticleDanceApp.init()
Start ==
    /\ ~loop.started
    /\ Frame(0)
    /\ Did("start", 0)

\* the browser runs the pending frame callback: () => this.animate()
Animate ==
    /\ loop.pending > 0
    /\ Frame(loop.pending - 1)
    /\ Did("animate", 0)

\* HandTracker.toScreenCoords(normalized, innerWidth, innerHeight): normalised
\* coordinates in 1/Scale, mirrored horizontally; the result in Px
ScreenX(nx, w) == (Scale - nx) * w

ScreenY(ny, h) == ny * h

\* the squared distance of two palm centres, in 1/(Scale * Scale)
PalmDistSq(a, b) == (a.x - b.x) * (a.x - b.x) + (a.y - b.y) * (a.y - b.y)

\* HandTracker.detectTwoHandGesture() for the palm centres a and b; the
\* distance is rounded so that the strength stays positive as it is in the code
DetectTwoHandGesture(a, b) ==
    LET dsq == PalmDistSq(a, b) IN
    IF dsq < mergeDist * mergeDist
    THEN [type |-> "MERGE",
          strength |-> Scale - TDiv(FloorSqrt(dsq) * Scale, mergeDist),
          cx |-> (a.x + b.x) \div 2, cy |-> (a.y + b.y) \div 2]
    ELSE IF dsq > expandDist * expandDist
    THEN [type |-> "EXPAND",
          strength |-> Min(Scale, TDiv((MathSqrt(dsq) - expandDist) * Scale, expandSpan)),
          cx |-> 0, cy |-> 0]
    ELSE [type |-> "none", strength |-> 0, cx |-> 0, cy |-> 0]

\* ParticleDanceApp.handleTwoHandGesture(gesture)
HandleTwoHandGesture(st, g) ==
    IF g.type = "MERGE"
    THEN [st EXCEPT !.mouseX = g.cx * canvasW, !.mouseY = g.cy * canvasH,
                    !.mouseActive = TRUE,
                    !.forceStrength = TDiv(8 * g.strength, 10)]
    ELSE IF g.type = "EXPAND"
    THEN [st EXCEPT !.forceStrength = 0 - TDiv(5 * g.strength, 10)]
    ELSE st

\* the loop body of onHandsDetected for one hand
HandStep(st, h) ==
    HandleGestureMode([st EXCEPT !.mouseX = ScreenX(h.x, canvasW),
                                 !.mouseY = ScreenY(h.y, canvasH),
                                 !.mouseActive = TRUE], h.gesture)

RECURSIVE HandLoop(_, _, _)
HandLoop(st, hs, i) ==
    IF i > Len(hs) THEN st ELSE HandLoop(HandStep(st, hs[i]), hs, i + 1)

\* the two-hand gesture processResults attaches to a frame of two hands
FrameTwoHand(hs) ==
    IF Len(hs) = 2 THEN DetectTwoHandGesture(hs[1], hs[2])
    ELSE [type |-> "none", strength |-> 0, cx |-> 0, cy |-> 0]

\* ParticleDanceApp.onHandsDetected(handsData); lastArg is the index of the
\* frame in HandFrames. Hand results arrive while tracking is enabled.
HandsDetected ==
    \E k \in 1..Len(HandFrames) :
      LET hs == HandFrames[k]
          g  == FrameTwoHand(hs)
          st == HandleTwoHandGesture(HandLoop(HandState, hs, 1), g)
      IN
        /\ app.handTrackingEnabled
        /\ Did("handsDetected", k)
        /\ app' = [app EXCEPT !.mode = st.appMode,
                              !.hands = [list |-> hs, twoHand |-> g.type]]
        /\ mode' = st.mode
        /\ particles' = st.particles
        /\ nextId' = st.nextId
        /\ mouseX' = st.mouseX /\ mouseY' = st.mouseY /\ mouseActive' = st.mouseActive
        /\ forceStrength' = st.forceStrength
        /\ UNCHANGED <<particleCount, canvasW, canvasH, bgBrightness, bgDirection,
                       performanceMode, renderVars, cursorVisible, loop>>

\* ParticleDanceApp.startHandTracking() when the tracker started
StartHandTracking ==
    /\ ~app.handTrackingEnabled
    /\ app' = [app EXCEPT !.handTrackingEnabled = TRUE]
    /\ Did("startHandTracking", 0)
    /\ UNCHANGED <<simVars, renderVars, cursorVisible, loop>>

\* HandTracker.stop(): the requested frame callback is cancelled and the tracks
\* of the stream of videoElement are stopped
TrackerStop(t) ==
    [t EXCEPT !.enabled = FALSE,
              !.loops = {l \in @ : ~(l.phase = "scheduled" /\ l.id = t.animationId)},
              !.animationId = 0,
              !.streams = [k \in 1..Len(@) |->
                              IF k = t.videoElement THEN "stopped" ELSE @[k]],
              !.videoElement = 0]

\* stopHandTracking that also puts the default force strength back
StopHandTrackingRestore ==
    /\ app.handTrackingEnabled
    /\ app' = [app EXCEPT !.handTrackingEnabled = FALSE, !.tracker = TrackerStop(@)]
    /\ mouseActive' = FALSE
    /\ forceStrength' = Scale \div 2
    /\ Did("stopHandTracking", 0)
    /\ UNCHANGED <<particles, particleCount, nextId, canvasW, canvasH, mouseX, mouseY,
                   mode, bgBrightness, bgDirection, performanceMode,
                   renderVars, cursorVisible, loop>>

\* ParticleDanceApp.stopHandTracking()
StopHandTracking ==
    /\ app.handTrackingEnabled
    /\ app' = [app EXCEPT !.handTrackingEnabled = FALSE, !.tracker = TrackerStop(@)]
    /\ mouseActive' = FALSE
    /\ Did("stopHandTracking", 0)
    /\ UNCHANGED <<particles, particleCount, nextId, canvasW, canvasH, mouseX, mouseY,
                   mode, forceStrength, bgBrightness, bgDirection, performanceMode,
                   renderVars, cursorVisible, loop>>

\* onTrackingLost that only updates the status line
TrackingLostKeepsAnchor ==
    /\ app.handTrackingEnabled
    /\ Did("trackingLost", 0)
    /\ UNCHANGED <<simVars, renderVars, hostVars>>

\* ParticleDanceApp.onTrackingLost()
TrackingLost ==
    /\ app.handTrackingEnabled
    /\ mouseActive' = FALSE
    /\ Did("trackingLost", 0)
    /\ UNCHANGED <<particles, particleCount, nextId, canvasW, canvasH, mouseX, mouseY,
                   mode, forceStrength, bgBrightness, bgDirection, performanceMode,
                   renderVars, hostVars>>

\* mouse handlers that do not look at handTrackingEnabled
MouseMoveUnguarded ==
    \E a \in Anchors :
        /\ mouseX' = a[1] /\ mouseY' = a[2] /\ mouseActive' = TRUE
        /\ Did("mouseMove", 0)
        /\ UNCHANGED <<particles, particleCount, nextId, canvasW, canvasH, mode,
                       forceStrength, bgBrightness, bgDirection, performanceMode,
                       renderVars, hostVars>>

\* ParticleDanceApp.handleMouseMove(e)
MouseMove ==
    \E a \in Anchors :
        /\ IF app.handTrackingEnabled
           THEN UNCHANGED <<mouseX, mouseY, mouseActive>>
           ELSE mouseX' = a[1] /\ mouseY' = a[2] /\ mouseActive' = TRUE
        /\ Did("mouseMove", 0)
        /\ UNCHANGED <<particles, particleCount, nextId, canvasW, canvasH, mode,
                       forceStrength, bgBrightness, bgDirection, performanceMode,
                       renderVars, hostVars>>

\* ParticleDanceApp.handleMouseEnter() and handleMouseLeave()
MouseEnterLeave ==
    \E entered \in BOOLEAN :
        /\ IF app.handTrackingEnabled
           THEN UNCHANGED mouseActive
           ELSE mouseActive' = entered
        /\ Did(IF entered THEN "mouseEnter" ELSE "mouseLeave", 0)
        /\ UNCHANGED <<particles, particleCount, nextId, canvasW, canvasH, mouseX, mouseY,
                       mode, forceStrength, bgBrightness, bgDirection, performanceMode,
                       renderVars, hostVars>>

\* ParticleDanceApp.handleTouchStart(e), handleTouchMove(e) and handleTouchEnd()
Touch ==
    \/ \E a \in Anchors :
          /\ mouseX' = a[1] /\ mouseY' = a[2] /\ mouseActive' = TRUE
          /\ Did("touchMove", 0)
          /\ UNCHANGED <<particles, particleCount, nextId, canvasW, canvasH, mode,
                         forceStrength, bgBrightness, bgDirection, performanceMode,
                         renderVars, hostVars>>
    \/ /\ mouseActive' = FALSE
       /\ Did("touchEnd", 0)
       /\ UNCHANGED <<particles, particleCount, nextId, canvasW, canvasH, mouseX, mouseY,
                      mode, forceStrength, bgBrightness, bgDirection, performanceMode,
                      renderVars, hostVars>>

\* one callback of the recorder: onStart, onStop, onError or onComplete; rec is
\* the MediaRecorder whose event fired it (0 for a call), blob the chunks handed
\* to onComplete
Callback(cb, rec, blob) == [cb |-> cb, rec |-> rec, blob |-> blob]

\* the n-th chunk MediaRecorder k emits
Chunk(k, n) == [rec |-> k, n |-> n]

\* app.isRecording after the callbacks log[i..]: onRecordStart sets it,
\* onRecordStop clears it, the error and complete callbacks leave it
RECURSIVE AfterCallbacks(_, _, _)
AfterCallbacks(flag, log, i) ==
    IF i > Len(log) THEN flag
    ELSE AfterCallbacks(IF log[i].cb = "onStart" THEN TRUE
                        ELSE IF log[i].cb = "onStop" THEN FALSE ELSE flag, log, i + 1)

\* a step of the recorder with the callbacks it makes into the application;
\* the particle system stands still
RecorderStep(op, r) ==
    /\ app' = [app EXCEPT !.recorder = r,
                          !.isRecording = AfterCallbacks(@, r.log,
                                                         Len(app.recorder.log) + 1)]
    /\ lastOp' = op /\ lastArg' = 0
    /\ UNCHANGED <<simVars, renderVars, cursorVisible, loop, prev, steps>>

\* the body of ScreenRecorder.stop() on recorder state r; `by` tells who called
StopBody(r, by) ==
    IF ~r.isRecording \/ r.mediaRecorder = 0 THEN r
    ELSE LET k == r.mediaRecorder IN
         [r EXCEPT !.timers = {t \in r.timers : t.id # r.recordingTimeout},
                   !.isRecording = FALSE,
                   !.recs[k] = IF @.state = "recording"
                               THEN [@ EXCEPT !.state = "stopping", !.stoppedAt = r.now,
                                              !.stoppedBy = by]
                               ELSE @,
                   !.log = Append(@, Callback("onStop", 0, <<>>))]

\* the body of ScreenRecorder.start() on recorder state r
StartBody(r) ==
    LET k == Len(r.recs) + 1 IN
    IF ~r.supported
    THEN [r EXCEPT !.log = Append(@, Callback("onError", 0, <<>>))]
    ELSE IF r.isRecording THEN r
    ELSE [r EXCEPT !.mediaRecorder = k,
                   !.chunks = <<>>,
                   !.recs = Append(@, [state |-> "recording", startedAt |-> r.now,
                                       stoppedAt |-> 0 - 1, stoppedBy |-> "none",
                                       emitted |-> 0]),
                   !.isRecording = TRUE,
                   !.log = Append(@, Callback("onStart", 0, <<>>)),
                   !.timers = @ \cup {[id |-> k, due |-> r.now + duration]},
                   !.recordingTimeout = k]

\* ScreenRecorder.start()
RecStart ==
    LET r == StartBody(app.recorder)
    IN  /\ Len(app.recorder.log) < MaxLog
        /\ Len(r.recs) <= MaxRecordings
        /\ RecorderStep("recStart", r)

\* ParticleDanceApp.toggleRecording()
ToggleRecording ==
    LET r == IF app.isRecording THEN StopBody(app.recorder, "stop")
                                ELSE StartBody(app.recorder)
    IN  /\ Len(app.recorder.log) < MaxLog
        /\ Len(r.recs) <= MaxRecordings
        /\ RecorderStep("toggleRecording", r)

\* ScreenRecorder.stop(), called by the application
RecStop ==
    RecorderStep("recStop", StopBody(app.recorder, "stop"))

\* the auto-stop timer of recording t.id falls due: () => this.stop()
TimerFires ==
    \E t \in app.recorder.timers :
        /\ t.due <= app.recorder.now
        /\ RecorderStep("timer",
              StopBody([app.recorder EXCEPT !.timers = @ \ {t}], "timer"))

\* mediaRecorder.ondataavailable of recorder k with a chunk of data, every 100 ms
DataAvailable ==
    \E k \in 1..Len(app.recorder.recs) :
        LET r == app.recorder IN
        /\ r.recs[k].state = "recording"
        /\ r.recs[k].emitted < MaxChunks
        /\ RecorderStep("data",
              [r EXCEPT !.recs[k].emitted = @ + 1,
                        !.chunks = Append(@, Chunk(k, r.recs[k].emitted + 1))])

\* finalizeRecording() on recorder state r, run by the stop event of recorder k
FinalizeRecording(r, k) ==
    IF Len(r.chunks) = 0
    THEN [r EXCEPT !.log = Append(@, Callback("onError", k, <<>>))]
    ELSE [r EXCEPT !.log = Append(@, Callback("onComplete", k, r.chunks)),
                   !.chunks = <<>>]

\* recorder k, stopped, delivers its last dataavailable (with or without data)
\* and then its stop event: mediaRecorder.onstop
StopEvent ==
    \E k \in 1..Len(app.recorder.recs), last \in BOOLEAN :
        LET r == app.recorder
            d == IF last
                 THEN [r EXCEPT !.recs[k].emitted = @ + 1,
                                !.chunks = Append(@, Chunk(k, r.recs[k].emitted + 1))]
                 ELSE r
        IN  /\ r.recs[k].state = "stopping"
            /\ RecorderStep("stopEvent",
                  FinalizeRecording([d EXCEPT !.recs[k].state = "inactive"], k))

\* mediaRecorder.onerror of recorder k; the browser then stops that recorder
RecError ==
    \E k \in 1..Len(app.recorder.recs) :
        LET r == app.recorder IN
        /\ r.recs[k].state = "recording"
        /\ Len(r.log) < MaxLog
        /\ RecorderStep("recError",
              [r EXCEPT !.log = Append(@, Callback("onError", k, <<>>)),
                        !.isRecording = FALSE,
                        !.recs[k] = [@ EXCEPT !.state = "stopping", !.stoppedAt = r.now,
                                              !.stoppedBy = "error"]])

\* time passes; a timer that is due fires before more time passes
ClockTick ==
    LET r == app.recorder IN
    /\ r.now < MaxClock * tickMs
    /\ \A t \in r.timers : t.due > r.now
    /\ RecorderStep("clock", [r EXCEPT !.now = @ + tickMs])

\* ParticleSystem.cursorVisible, a public flag of the system
SetCursorVisible ==
    /\ cursorVisible' = ~cursorVisible
    /\ Did("setCursorVisible", 0)
    /\ UNCHANGED <<simVars, renderVars, app, loop>>

Next ==
    \/ SetMousePosition
    \/ SetMode
    \/ TwoHandGesture
    \/ SetPerformanceMode
    \/ Update
    \/ SpawnBurst
    \/ WaveEffect
    \/ EnergyBoost
    \/ ChaosMode
    \/ Resize
    \/ Render

Spec == Init /\ [][Next]_vars

\* the application's input handlers that touch the mode, with the tick
NextApp ==
    \/ SetMode
    \/ GestureMode
    \/ SetMousePosition
    \/ Update

SpecApp == Init /\ [][NextApp]_vars

\* the application with hand tracking switched on by the user
InitHands ==
    /\ particleCount = 5
    /\ particles = InitParticles(5, 150, 100, 0)
    /\ bgBrightness = 0 /\ bgDirection = 1
    /\ nextId = particleCount
    /\ canvasW = 150 /\ canvasH = 100
    /\ mouseX = TDiv(Px(canvasW), 2) /\ mouseY = TDiv(Px(canvasH), 2)
    /\ mouseActive = FALSE
    /\ mode = "attract"
    /\ forceStrength = Scale \div 2
    /\ performanceMode = FALSE
    /\ lastBgBrightness = 0 - 1
    /\ bgGradient = NoGradient
    /\ painted = NotPainted
    /\ cursorVisible = TRUE
    /\ app = [AppConstructed EXCEPT !.handTrackingEnabled = TRUE]
    /\ loop = NotStarted
    /\ lastOp = "init" /\ lastArg = 0
    /\ prev = Snapshot
    /\ steps = 0

\* hand results, the end of hand tracking, the mouse and the tick
NextHands ==
    \/ HandsDetected
    \/ StopHandTracking
    \/ MouseMove
    \/ Update

SpecHands == InitHands /\ [][NextHands]_vars

\* the pointer, touch and hand events that reach the anchor
NextPointer ==
    \/ StartHandTracking
    \/ StopHandTracking
    \/ HandsDetected
    \/ TrackingLost
    \/ MouseMove
    \/ MouseEnterLeave
    \/ Touch

SpecPointer == Init /\ [][NextPointer]_vars

\* ParticleSystem.update() in a long run of the animation loop; lastArg counts
\* the ticks
Tick ==
    /\ lastArg < MaxTicks
    /\ bgBrightness' = BreatheStep(bgBrightness, bgDirection)
    /\ bgDirection' = BreatheDir(bgBrightness', bgDirection)
    /\ particles' = UpdatedStore
    /\ lastOp' = "update" /\ lastArg' = lastArg + 1
    /\ prev' = Snapshot
    /\ UNCHANGED <<particleCount, nextId, canvasW, canvasH, mouseX, mouseY,
                   mouseActive, mode, forceStrength, performanceMode, renderVars,
                   hostVars, steps>>

NextBreath == Tick

SpecBreath == Init /\ [][NextBreath]_vars

\* the same events with the ticks of the particle system between them, hand
\* tracking being on at the start
NextAnchor ==
    \/ NextPointer
    \/ Update

SpecAnchor == InitHands /\ [][NextAnchor]_vars

\* the layers of the ambient drone: sub bass, fifth, octave, shimmer
Layers == 1..4
\* the oscillator of layer l of the g-th drone
Layer(g, l) == [gen |-> g, layer |-> l]

\* AudioSystem.stopAmbient(): ramps the gain down and schedules the timer that
\* will stop the oscillators
StopAmbient(a) == [a EXCEPT !.timers = @ + 1]

\* AudioSystem.startAmbient(): stops the existing ambient, then creates and
\* starts the four layers
StartAmbient(a) ==
    IF ~a.initialized \/ ~a.enabled THEN a
    ELSE LET g == a.created + 1
             fresh == [l \in Layers |-> Layer(g, l)]
         IN  [StopAmbient(a) EXCEPT !.created = g,
                                    !.ambientOscs = @ \o fresh,
                                    !.playing = @ \cup {fresh[l] : l \in Layers}]

\* AudioSystem.setEnabled(enabled)
SetEnabled(a, enabled) ==
    LET b == [a EXCEPT !.enabled = enabled]
    IN  IF enabled THEN StartAmbient(b) ELSE StopAmbient(b)

\* a step of the audio system: the particle system stands still
AudioStep(op, a) ==
    /\ a.created <= MaxAmbient /\ a.timers <= MaxTimers
    /\ lastOp' = op /\ lastArg' = 0
    /\ UNCHANGED <<simVars, renderVars, cursorVisible, loop, prev, steps>>

\* ParticleDanceApp.ensureAudioInit() on the first interaction: audio.init(),
\* which may fail to create the context, then startAmbient() if sound is on
EnsureAudioInit ==
    /\ ~app.hasInteracted
    /\ \E ok \in BOOLEAN :
         LET a == [app.audio EXCEPT !.initialized = ok]
             b == IF app.soundEnabled THEN StartAmbient(a) ELSE a
         IN  /\ app' = [app EXCEPT !.hasInteracted = TRUE, !.audio = b]
             /\ AudioStep("ensureAudioInit", b)

\* ParticleDanceApp.toggleSound()
ToggleSound ==
    LET b == SetEnabled(app.audio, ~app.soundEnabled)
    IN  /\ app' = [app EXCEPT !.soundEnabled = ~app.soundEnabled, !.audio = b]
        /\ AudioStep("toggleSound", b)

\* the timer of stopAmbient fires: it stops whatever ambientOscs holds now
AmbientTimeout ==
    /\ app.audio.timers > 0
    /\ LET a == app.audio
           held == {a.ambientOscs[i] : i \in 1..Len(a.ambientOscs)}
           b == [a EXCEPT !.timers = @ - 1, !.ambientOscs = <<>>,
                          !.playing = @ \ held]
       IN  /\ app' = [app EXCEPT !.audio = b]
           /\ AudioStep("ambientTimeout", b)

\* the constructed application before the first interaction
InitAudio ==
    /\ Constructed(1, 150, 100, 0)
    /\ lastOp = "init" /\ lastArg = 0
    /\ prev = Snapshot
    /\ steps = 0

NextAudio ==
    \/ EnsureAudioInit
    \/ ToggleSound
    \/ AmbientTimeout

SpecAudio == InitAudio /\ [][NextAudio]_vars

\* landmark indices and thresholds of HandTracker; coordinates are normalised,
\* in 1/Scale
WRIST == 0
THUMB_TIP == 4
INDEX_TIP == 8
MIDDLE_TIP == 12
RING_TIP == 16
PINKY_TIP == 20
PINCH_THRESHOLD == 80
SPREAD_THRESHOLD == 250
bufferSize == 5

Point(x, y, z) == [x |-> x, y |-> y, z |-> z]

\* HandTracker.distance squared: Math.sqrt(d) < t is decided as d < t * t
DistanceSq(p1, p2) ==
    (p1.x - p2.x) * (p1.x - p2.x) + (p1.y - p2.y) * (p1.y - p2.y)
        + (p1.z - p2.z) * (p1.z - p2.z)

\* HandTracker.isFingerExtended: the tip is more than 0.02 above the joint two
\* landmarks before it
IsFingerExtended(landmarks, tipIndex) ==
    landmarks[tipIndex].y < landmarks[tipIndex - 2].y - 20

\* HandTracker.countExtendedFingers: the thumb by its x distance from the
\* wrist, the other four by isFingerExtended
CountExtendedFingers(landmarks) ==
    (IF Abs(landmarks[THUMB_TIP].x - landmarks[WRIST].x) > 100 THEN 1 ELSE 0)
    + Cardinality({tip \in {INDEX_TIP, MIDDLE_TIP, RING_TIP, PINKY_TIP} :
                      IsFingerExtended(landmarks, tip)})

\* HandTracker.calculateFingerSpread, squared
FingerSpreadSq(landmarks) == DistanceSq(landmarks[INDEX_TIP], landmarks[PINKY_TIP])

\* detectGesture with the fist tested before the pinch
DetectGestureFistFirst(landmarks) ==
    LET fingersExtended == CountExtendedFingers(landmarks)
        pinchSq == DistanceSq(landmarks[THUMB_TIP], landmarks[INDEX_TIP])
    IN  IF fingersExtended = 0 THEN "FIST"
        ELSE IF pinchSq < PINCH_THRESHOLD * PINCH_THRESHOLD /\ fingersExtended <= 2
        THEN "PINCH"
        ELSE IF fingersExtended = 5
                /\ FingerSpreadSq(landmarks) > SPREAD_THRESHOLD * SPREAD_THRESHOLD
        THEN "SPREAD"
        ELSE IF fingersExtended >= 4 THEN "PALM"
        ELSE IF fingersExtended = 1 /\ IsFingerExtended(landmarks, INDEX_TIP)
        THEN "POINT"
        ELSE "NEUTRAL"

\* HandTracker.detectGesture(landmarks): the type of the gesture it returns
DetectGesture(landmarks) ==
    LET fingersExtended == CountExtendedFingers(landmarks)
        pinchSq == DistanceSq(landmarks[THUMB_TIP], landmarks[INDEX_TIP])
    IN  IF pinchSq < PINCH_THRESHOLD * PINCH_THRESHOLD /\ fingersExtended <= 2
        THEN "PINCH"
        ELSE IF fingersExtended = 0 THEN "FIST"
        ELSE IF fingersExtended = 5
                /\ FingerSpreadSq(landmarks) > SPREAD_THRESHOLD * SPREAD_THRESHOLD
        THEN "SPREAD"
        ELSE IF fingersExtended >= 4 THEN "PALM"
        ELSE IF fingersExtended = 1 /\ IsFingerExtended(landmarks, INDEX_TIP)
        THEN "POINT"
        ELSE "NEUTRAL"

\* the landmarks of a hand whose wrist is at (0.5, 0.9) and whose middle joints
\* are all at height 0.5: the thumb tip at (tx, ty), the index tip at (ix, iy),
\* the middle and ring tips at heights my and ry, the pinky tip at (px, py)
HandLandmarks(tx, ty, ix, iy, my, ry, px, py) ==
    [i \in 0..20 |->
        CASE i = WRIST      -> Point(500, 900, 0)
          [] i = THUMB_TIP  -> Point(tx, ty, 0)
          [] i = INDEX_TIP  -> Point(ix, iy, 0)
          [] i = MIDDLE_TIP -> Point(500, my, 0)
          [] i = RING_TIP   -> Point(500, ry, 0)
          [] i = PINKY_TIP  -> Point(px, py, 0)
          [] OTHER          -> Point(500, 500, 0)]

\* the hands MediaPipe reports: every finger bent (0.6), straight (0.4) or, for
\* the index, just at the margin (0.48); the thumb near the wrist or out, next
\* to the index tip or away from it; the pinky at, just over or under the
\* spread threshold from the index
LandmarkInputs ==
    {HandLandmarks(tx, ty, ix, iy, my, ry, px, py) :
        tx \in {420, 450, 600, 601}, ty \in {420, 600}, ix \in {500, 550},
        iy \in {400, 480, 600}, my \in {400, 600}, ry \in {400, 600},
        px \in {700, 750, 751}, py \in {400, 600}}

\* a step of the hand tracker: the particle system stands still
TrackerStep(op, t) ==
    /\ app' = [app EXCEPT !.tracker = t]
    /\ lastOp' = op /\ lastArg' = 0
    /\ UNCHANGED <<simVars, renderVars, cursorVisible, loop, prev, steps>>

\* detectGesture on the landmarks of the frame
DetectGestureCall ==
    /\ app.tracker.gesture = NoGesture
    /\ LET type == DetectGesture(app.tracker.landmarks)
       IN  TrackerStep("detectGesture",
               [app.tracker EXCEPT !.gesture = [type |-> type, raw |-> type,
                                                hand |-> "right"]])

\* a tracker that has received the landmarks of one hand
InitGesture ==
    /\ SystemConstructed(1, 150, 100, 0)
    /\ \E l \in LandmarkInputs : app = [AppConstructed EXCEPT !.tracker.landmarks = l]
    /\ lastOp = "init" /\ lastArg = 0
    /\ prev = Snapshot
    /\ steps = 0

NextGesture == DetectGestureCall

SpecGesture == InitGesture /\ [][NextGesture]_vars

\* buffer.push(type) and the shift that keeps at most bufferSize entries
BufferPush(buffer, type) ==
    LET b == Append(buffer, type)
    IN  IF Len(b) > bufferSize THEN Tail(b) ELSE b

\* the keys of `counts` in the order Object.entries lists them: by first
\* occurrence in the buffer
RECURSIVE CountKeys(_)
CountKeys(buffer) ==
    IF buffer = <<>> THEN <<>>
    ELSE LET front == SubSeq(buffer, 1, Len(buffer) - 1)
             keys == CountKeys(front)
             g == buffer[Len(buffer)]
         IN  IF \E i \in 1..Len(keys) : keys[i] = g THEN keys ELSE Append(keys, g)

\* counts[g]
CountOf(buffer, g) == Cardinality({i \in 1..Len(buffer) : buffer[i] = g})

\* the loop with >= in place of >
RECURSIVE MaxLoopLast(_, _, _, _, _)
MaxLoopLast(buffer, keys, i, maxCount, smoothedType) ==
    IF i > Len(keys) THEN smoothedType
    ELSE IF CountOf(buffer, keys[i]) >= maxCount
         THEN MaxLoopLast(buffer, keys, i + 1, CountOf(buffer, keys[i]), keys[i])
         ELSE MaxLoopLast(buffer, keys, i + 1, maxCount, smoothedType)

\* the loop over Object.entries(counts) from entry i on
RECURSIVE MaxLoop(_, _, _, _, _)
MaxLoop(buffer, keys, i, maxCount, smoothedType) ==
    IF i > Len(keys) THEN smoothedType
    ELSE IF CountOf(buffer, keys[i]) > maxCount
         THEN MaxLoop(buffer, keys, i + 1, CountOf(buffer, keys[i]), keys[i])
         ELSE MaxLoop(buffer, keys, i + 1, maxCount, smoothedType)

\* HandTracker.smoothGesture(gesture, handId) on tracker t; type is gesture.type
SmoothGesture(t, type, handId) ==
    LET buffer == BufferPush(t.gestureBuffer[handId], type)
        smoothedType == MaxLoop(buffer, CountKeys(buffer), 1, 0, type)
    IN  [t EXCEPT !.gestureBuffer[handId] = buffer,
                  !.seen[handId] = Append(@, type),
                  !.gesture = [type |-> smoothedType, raw |-> type, hand |-> handId]]

\* one hand each of a fist, an open palm and a pointing index
Poses ==
    {HandLandmarks(450, 600, 500, 600, 600, 600, 700, 600),
     HandLandmarks(450, 600, 500, 400, 400, 400, 700, 400),
     HandLandmarks(450, 600, 500, 400, 600, 600, 700, 600)}

\* processResults for one hand of a frame: detectGesture, then smoothGesture
\* under the id of the hand
SmoothGestureCall ==
    /\ Len(app.tracker.seen.left) + Len(app.tracker.seen.right) < MaxCalls
    /\ \E handId \in {"left", "right"}, l \in Poses :
         TrackerStep("smoothGesture",
             SmoothGesture([app.tracker EXCEPT !.landmarks = l],
                           DetectGesture(l), handId))

InitSmooth ==
    /\ Constructed(1, 150, 100, 0)
    /\ lastOp = "init" /\ lastArg = 0
    /\ prev = Snapshot
    /\ steps = 0

NextSmooth == SmoothGestureCall

SpecSmooth == InitSmooth /\ [][NextSmooth]_vars

\* one hand of a result frame: its handedness label, its palm centre and the
\* type detectGesture gives its landmarks
ResultHand(isLeft, x, y, g) == [isLeft |-> isLeft, x |-> x, y |-> y, gesture |-> g]

\* the loop body of processResults for hand h: smoothGesture under the id of
\* the hand, the hand data pushed and remembered as leftHand or rightHand
TrackHand(acc, h) ==
    LET t == SmoothGesture(acc.tracker, h.gesture, IF h.isLeft THEN "left" ELSE "right")
        data == [h EXCEPT !.gesture = t.gesture.type]
    IN  [tracker |-> IF h.isLeft THEN [t EXCEPT !.leftHand = data]
                                 ELSE [t EXCEPT !.rightHand = data],
         hands |-> Append(acc.hands, data)]

RECURSIVE TrackLoop(_, _, _)
TrackLoop(acc, f, i) ==
    IF i > Len(f) THEN acc ELSE TrackLoop(TrackHand(acc, f[i]), f, i + 1)

\* the two-hand check of processResults after the loop over n hands
TwoHandOf(t, n) ==
    IF t.leftHand # NoHand /\ t.rightHand # NoHand /\ n = 2
    THEN DetectTwoHandGesture(t.leftHand, t.rightHand)
    ELSE NoTwoHand

\* ParticleDanceApp.advanceTutorial()
AdvanceTutorial(tut) == IF tut.step < 5 THEN [tut EXCEPT !.step = @ + 1] ELSE tut

\* the tutorial part of onHandsDetected at time now
TutorialHandSeen(tut, now) ==
    IF tut.active /\ tut.step = 1
    THEN LET since == IF tut.handDetectedTime = 0 THEN now ELSE tut.handDetectedTime
         IN  IF now - since >= 2000
             THEN [AdvanceTutorial(tut) EXCEPT !.handDetectedTime = 0]
             ELSE [tut EXCEPT !.handDetectedTime = since]
    ELSE tut

\* ParticleDanceApp.checkTutorialGesture(gestureType)
CheckTutorialGesture(tut, g) ==
    IF ~tut.active THEN tut
    ELSE IF (tut.step = 2 /\ g = "PALM") \/ (tut.step = 3 /\ g = "FIST")
            \/ (tut.step = 4 /\ g = "POINT")
    THEN IF g \in tut.completed THEN tut
         ELSE [tut EXCEPT !.completed = @ \cup {g}, !.timers = @ + 1]
    ELSE tut

\* the gestures playGestureSound has a sound for
CueTypes == {"PALM", "FIST", "PINCH", "SPREAD"}

\* ParticleDanceApp.onGesture(gesture, hand) with gesture.type = g
OnGesture(st, g) ==
    IF g # st.lastGesture
    THEN [st EXCEPT !.lastGesture = g,
                    !.cues = IF st.sound /\ g \in CueTypes THEN @ + 1 ELSE @,
                    !.tutorial = CheckTutorialGesture(@, g)]
    ELSE st

RECURSIVE GestureLoop(_, _, _)
GestureLoop(st, hs, i) ==
    IF i > Len(hs) THEN st ELSE GestureLoop(OnGesture(st, hs[i].gesture), hs, i + 1)

\* what the callbacks of a frame work on: the application and particle-system
\* fields they write
CallbackState ==
    [mouseX |-> mouseX, mouseY |-> mouseY, mouseActive |-> mouseActive,
     mode |-> mode, appMode |-> app.mode, particles |-> particles,
     nextId |-> nextId, forceStrength |-> forceStrength,
     lastGesture |-> app.lastGesture, cues |-> app.cues, tutorial |-> app.tutorial,
     sound |-> app.soundEnabled /\ app.hasInteracted]

\* ParticleDanceApp.onHandsDetected(handsData) followed by onGesture for every
\* hand, as processResults calls them; g is handsData.twoHandGesture
FrameCallbacks(st, hs, g) ==
    LET seen == [st EXCEPT !.tutorial = TutorialHandSeen(@, app.now)]
        moved == HandleTwoHandGesture(HandLoop(seen, hs, 1), g)
    IN  GestureLoop(moved, hs, 1)

\* ParticleDanceApp.onTrackingLost()
LostCallback(st) ==
    [st EXCEPT !.mouseActive = FALSE,
               !.tutorial = IF @.active /\ @.step = 1
                            THEN [@ EXCEPT !.handDetectedTime = 0] ELSE @]

\* the state the step leaves: st for the callbacks' fields, t for the tracker
Deliver(op, st, t, hands) ==
    /\ app' = [app EXCEPT !.mode = st.appMode, !.hands = hands, !.tracker = t,
                          !.lastGesture = st.lastGesture, !.cues = st.cues,
                          !.tutorial = st.tutorial]
    /\ mode' = st.mode
    /\ particles' = st.particles
    /\ nextId' = st.nextId
    /\ mouseX' = st.mouseX /\ mouseY' = st.mouseY /\ mouseActive' = st.mouseActive
    /\ forceStrength' = st.forceStrength
    /\ lastOp' = op /\ lastArg' = 0
    /\ prev' = Snapshot
    /\ UNCHANGED <<particleCount, canvasW, canvasH, bgBrightness, bgDirection,
                   performanceMode, renderVars, cursorVisible, loop, steps>>

\* a tracker that reports the loss at every frame without hands
WasTrackingAlways(t) == TRUE

\* the test of processResults before onTrackingLost
WasTracking(t) == t.handsDetected

\* HandTracker.processResults(results) with results.multiHandLandmarks = f and
\* the callbacks it makes into the application; t0 is the tracker the results
\* arrive at
ProcessResultsOn(t0, f) ==
    LET t == [t0 EXCEPT !.frames = @ + 1, !.twoHandGesture = NoTwoHand] IN
    IF Len(f) = 0
    THEN IF WasTracking(t)
         THEN Deliver("trackingLost", LostCallback(CallbackState),
                      [t EXCEPT !.handsDetected = FALSE,
                                !.calls = Append(@, "onTrackingLost")],
                      app.hands)
         ELSE Deliver("noHands", CallbackState, t, app.hands)
    ELSE LET acc == TrackLoop([tracker |-> [t EXCEPT !.handsDetected = TRUE],
                               hands |-> <<>>], f, 1)
             g == TwoHandOf(acc.tracker, Len(f))
         IN  Deliver("handsDetected", FrameCallbacks(CallbackState, acc.hands, g),
                     [acc.tracker EXCEPT !.calls = Append(@, "onHandsDetected"),
                                         !.twoHandGesture = g],
                     [list |-> acc.hands, twoHand |-> g.type])

ProcessResults(f) == ProcessResultsOn(app.tracker, f)

\* result frames: no hand; a left open palm; the palm with a right fist at a
\* middle distance; two hands both labelled Right, far apart; a left and a
\* right hand close together
TrackerFrames ==
    <<(<<>>),
      (<<ResultHand(TRUE, 300, 500, "PALM")>>),
      (<<ResultHand(TRUE, 300, 500, "PALM"), ResultHand(FALSE, 600, 500, "FIST")>>),
      (<<ResultHand(FALSE, 350, 500, "NEUTRAL"), ResultHand(FALSE, 900, 500, "NEUTRAL")>>),
      (<<ResultHand(TRUE, 200, 400, "NEUTRAL"), ResultHand(FALSE, 300, 400, "NEUTRAL")>>)>>

\* MediaPipe delivers the results of a frame
Results ==
    /\ app.tracker.frames < MaxFrames
    /\ \E k \in 1..Len(TrackerFrames) : ProcessResults(TrackerFrames[k])

\* hand tracking is on and the first interaction has initialised the sound
InitTracker ==
    /\ SystemConstructed(5, 150, 100, 0)
    /\ app = [AppConstructed EXCEPT !.handTrackingEnabled = TRUE, !.hasInteracted = TRUE]
    /\ lastOp = "init" /\ lastArg = 0
    /\ prev = Snapshot
    /\ steps = 0

NextTracker == Results

SpecTracker == InitTracker /\ [][NextTracker]_vars

\* ParticleDanceApp.startTutorial()
StartTutorial(tut) ==
    [tut EXCEPT !.active = TRUE, !.step = 1, !.completed = {}, !.ended = FALSE]

\* a step of the camera lifecycle that leaves the application as a
CameraStep(op, a) ==
    /\ app' = a
    /\ lastOp' = op /\ lastArg' = 0
    /\ prev' = Snapshot
    /\ UNCHANGED <<particles, particleCount, nextId, canvasW, canvasH, mouseX, mouseY,
                   mouseActive, mode, forceStrength, bgBrightness, bgDirection,
                   performanceMode, renderVars, cursorVisible, loop, steps>>

\* HandTracker.start() up to its first wait: the camera is requested; tut says
\* whether the caller is enableCamera, which starts the tutorial afterwards
StartRequested(a, tut) ==
    [a EXCEPT !.tracker.started = @ + 1,
              !.tracker.starts = @ \cup {[id |-> a.tracker.started + 1,
                                          phase |-> "camera", tutorial |-> tut]}]

\* ParticleDanceApp.toggleHandTracking() after the first interaction: stop when
\* handTrackingEnabled, else startHandTracking up to the camera request
ToggleHandTracking ==
    IF app.handTrackingEnabled
    THEN /\ app' = [app EXCEPT !.handTrackingEnabled = FALSE, !.tracker = TrackerStop(@)]
         /\ mouseActive' = FALSE
         /\ lastOp' = "stopHandTracking" /\ lastArg' = 0
         /\ prev' = Snapshot
         /\ UNCHANGED <<particles, particleCount, nextId, canvasW, canvasH, mouseX,
                        mouseY, mode, forceStrength, bgBrightness, bgDirection,
                        performanceMode, renderVars, cursorVisible, loop, steps>>
    ELSE /\ app.tracker.started < MaxStarts
         /\ CameraStep("startHandTracking", StartRequested(app, FALSE))

\* ParticleDanceApp.enableCamera() up to the camera request: the prompt is
\* hidden for good
EnableCamera ==
    /\ app.showCameraPrompt
    /\ app.tracker.started < MaxStarts
    /\ CameraStep("enableCamera",
                  StartRequested([app EXCEPT !.showCameraPrompt = FALSE], TRUE))

\* what runs after await startHandTracking() in enableCamera
AfterStart(a, s) ==
    IF s.tutorial THEN [a EXCEPT !.tutorial = StartTutorial(@)] ELSE a

\* getUserMedia resolves for start s: the stream goes into a new videoElement
CameraGranted ==
    \E s \in app.tracker.starts :
        /\ s.phase = "camera"
        /\ CameraStep("cameraGranted",
               [app EXCEPT !.tracker.streams = Append(@, "live"),
                           !.tracker.videoElement = Len(app.tracker.streams) + 1,
                           !.tracker.starts = (@ \ {s}) \cup {[s EXCEPT !.phase = "video"]}])

\* getUserMedia rejects for start s: onError reaches onHandTrackingError, and
\* start() returns false
CameraDenied ==
    \E s \in app.tracker.starts :
        /\ s.phase = "camera"
        /\ CameraStep("cameraDenied",
               AfterStart([app EXCEPT !.handTrackingEnabled = FALSE,
                                      !.tracker.starts = @ \ {s}], s))

\* loadedmetadata fires for the video of start s: with videoElement null the
\* handler throws and start() never resumes; else enabled is set, processFrame
\* sends the first frame and startHandTracking sets handTrackingEnabled
VideoReady ==
    \E s \in app.tracker.starts :
        /\ s.phase = "video"
        /\ IF app.tracker.videoElement = 0
           THEN CameraStep("videoFailed", [app EXCEPT !.tracker.starts = @ \ {s}])
           ELSE CameraStep("videoReady",
                   AfterStart([app EXCEPT !.handTrackingEnabled = TRUE,
                                          !.tracker.enabled = TRUE,
                                          !.tracker.starts = @ \ {s},
                                          !.tracker.loops =
                                              @ \cup {[id |-> s.id, phase |-> "sending"]}],
                              s))

\* result frames of the camera: no hand, a right fist, a right spread hand
CameraFrames ==
    <<(<<>>),
      (<<ResultHand(FALSE, 300, 500, "FIST")>>),
      (<<ResultHand(FALSE, 600, 300, "SPREAD")>>)>>

\* hands.send of loop l delivers its results and resolves: processResults runs
\* and processFrame requests the next frame callback
FrameDone ==
    \E l \in app.tracker.loops : \E k \in 1..Len(CameraFrames) :
        /\ l.phase = "sending"
        /\ app.tracker.frames < MaxFrames
        /\ ProcessResultsOn([app.tracker EXCEPT
                                 !.loops = (@ \ {l}) \cup {[l EXCEPT !.phase = "scheduled"]},
                                 !.animationId = l.id],
                            CameraFrames[k])

\* the frame callback of loop l runs processFrame: it returns when the tracker
\* is not enabled or has no video, else it sends the next frame
FrameCallback ==
    \E l \in app.tracker.loops :
        /\ l.phase = "scheduled"
        /\ CameraStep("processFrame",
               [app EXCEPT !.tracker.loops =
                   IF ~app.tracker.enabled \/ app.tracker.videoElement = 0
                   THEN @ \ {l}
                   ELSE (@ \ {l}) \cup {[l EXCEPT !.phase = "sending"]}])

\* the application after its first interaction, hand tracking off
InitCamera ==
    /\ SystemConstructed(5, 150, 100, 0)
    /\ app = [AppConstructed EXCEPT !.hasInteracted = TRUE]
    /\ lastOp = "init" /\ lastArg = 0
    /\ prev = Snapshot
    /\ steps = 0

NextCamera ==
    \/ ToggleHandTracking
    \/ EnableCamera
    \/ CameraGranted
    \/ CameraDenied
    \/ VideoReady
    \/ FrameDone
    \/ FrameCallback

SpecCamera == InitCamera /\ [][NextCamera]_vars

\* the operations that deliver a result frame
ResultOps == {"trackingLost", "noHands", "handsDetected"}

\* C37: once stopHandTracking has run and until hand tracking is started
\* again, a result frame that is delivered leaves the anchor, its activity,
\* the mode and the particles as they were
C37_StoppedIsQuiet ==
    [][(~app.handTrackingEnabled /\ ~app.tracker.enabled /\ app.tracker.starts = {}
        /\ lastOp' \in ResultOps /\ app'.tracker.frames # app.tracker.frames)
       => UNCHANGED <<mouseX, mouseY, mouseActive, mode, particles>>]_vars

\* C38: at most one camera stream is live and at most one processFrame loop
\* is alive; when the tracker is stopped and no start() is under way, every
\* stream acquired has been stopped and no loop is sending a frame again
LiveStreams == {k \in 1..Len(app.tracker.streams) : app.tracker.streams[k] = "live"}

C38_OneCamera ==
    /\ Cardinality(LiveStreams) <= 1
    /\ Cardinality(app.tracker.loops) <= 1
    /\ (~app.tracker.enabled /\ app.tracker.starts = {})
           => (/\ LiveStreams = {}
               /\ (lastOp = "processFrame" => app.tracker.loops = {}))

\* ParticleDanceApp.endTutorial(), the handler of the done and skip buttons
EndTutorial ==
    /\ app.tutorial.active
    /\ CameraStep("endTutorial",
                  [app EXCEPT !.tutorial = [@ EXCEPT !.active = FALSE, !.ended = TRUE]])

\* a timer armed by checkTutorialGesture fires: advanceTutorial()
TutorialTimer ==
    /\ app.tutorial.timers > 0
    /\ CameraStep("advanceTutorial",
                  [app EXCEPT !.tutorial = [AdvanceTutorial(@) EXCEPT !.timers = @ - 1]])

\* a second passes on Date.now()
TimePasses ==
    /\ app.now < 1000 + MaxSeconds * 1000
    /\ CameraStep("timePasses", [app EXCEPT !.now = @ + 1000])

\* result frames of the tutorial: no hand, a left fist, a right open palm
TutorialFrames ==
    <<(<<>>),
      (<<ResultHand(TRUE, 300, 500, "FIST")>>),
      (<<ResultHand(FALSE, 600, 300, "PALM")>>)>>

\* MediaPipe delivers the results of a frame during the tutorial
TutorialResults ==
    /\ app.tracker.frames < MaxFrames
    /\ \E k \in 1..Len(TutorialFrames) : ProcessResults(TutorialFrames[k])

\* enableCamera has run to its end: hand tracking is on and the tutorial has
\* started
InitTutorial ==
    /\ SystemConstructed(5, 150, 100, 0)
    /\ app = [AppConstructed EXCEPT !.handTrackingEnabled = TRUE, !.hasInteracted = TRUE,
                                    !.showCameraPrompt = FALSE,
                                    !.tutorial = StartTutorial(@)]
    /\ lastOp = "init" /\ lastArg = 0
    /\ prev = Snapshot
    /\ steps = 0

NextTutorial ==
    \/ TutorialResults
    \/ EndTutorial
    \/ TutorialTimer
    \/ TimePasses

SpecTutorial == InitTutorial /\ [][NextTutorial]_vars

\* the gesture the tutorial waits for at a step
StepGesture(n) == IF n = 2 THEN "PALM" ELSE IF n = 3 THEN "FIST" ELSE "POINT"

\* C39: the tutorial step stays in 1..5 and changes only by +1; step 1 advances
\* only in a frame with a hand 2000 ms or more after the hand was first seen,
\* steps 2, 3 and 4 only after their gesture was seen at that step, and no
\* step changes while the tutorial is inactive
C39_TutorialSteps ==
    [][/\ app'.tutorial.step \in 1..5
       /\ (app'.tutorial.step # app.tutorial.step
              => app'.tutorial.step = app.tutorial.step + 1)
       /\ ((app.tutorial.step = 1 /\ app'.tutorial.step = 2)
              => (/\ lastOp' = "handsDetected"
                  /\ app.tutorial.handDetectedTime # 0
                  /\ app.now - app.tutorial.handDetectedTime >= 2000))
       /\ ((app.tutorial.step \in 2..4 /\ app'.tutorial.step # app.tutorial.step)
              => StepGesture(app.tutorial.step) \in app.tutorial.completed)
       /\ (~app.tutorial.active => app'.tutorial.step = app.tutorial.step)]_vars

\* a constructed application whose browser supports recording or does not
InitRecorder ==
    /\ SystemConstructed(1, 150, 100, 0)
    /\ \E sup \in BOOLEAN : app = [AppConstructed EXCEPT !.recorder.supported = sup]
    /\ lastOp = "init" /\ lastArg = 0
    /\ prev = Snapshot
    /\ steps = 0

\* the calls of the recorder and the events of its MediaRecorder objects and timers
NextRecorder ==
    \/ RecStart
    \/ RecStop
    \/ TimerFires
    \/ DataAvailable
    \/ StopEvent
    \/ RecError
    \/ ClockTick

SpecRecorder == InitRecorder /\ [][NextRecorder]_vars

\* the record button of the application and the events of the recorder
NextRecording ==
    \/ ToggleRecording
    \/ TimerFires
    \/ DataAvailable
    \/ StopEvent
    \/ RecError
    \/ ClockTick

SpecRecording == InitRecorder /\ [][NextRecording]_vars

\* the animation loop and the events the browser delivers between its frames;
\* init() starts the loop before it returns, so every event comes after start()
NextLoop ==
    \/ Start
    \/ Animate
    \/ loop.started /\ SetMousePosition
    \/ loop.started /\ SetMode
    \/ loop.started /\ Resize

SpecLoop == Init /\ [][NextLoop]_vars

\* background breathing in mid-run: bgBrightness and bgDirection
Breaths == {<<0, 1>>, <<4 * (Scale \div 10), 1>>, <<15 * (Scale \div 10), 0 - 1>>}

\* a constructed system some ticks into its run, not yet rendered
InitRender ==
    /\ \E count \in Counts, seed \in Seeds, b \in Breaths :
          /\ particleCount = count
          /\ particles = InitParticles(count, 150, 100, seed)
          /\ bgBrightness = b[1] /\ bgDirection = b[2]
    /\ nextId = particleCount
    /\ canvasW = 150 /\ canvasH = 100
    /\ mouseX = TDiv(Px(canvasW), 2) /\ mouseY = TDiv(Px(canvasH), 2)
    /\ mouseActive = FALSE
    /\ mode = "attract"
    /\ forceStrength = Scale \div 2
    /\ performanceMode = FALSE
    /\ lastBgBrightness = 0 - 1
    /\ bgGradient = NoGradient
    /\ painted = NotPainted
    /\ cursorVisible = TRUE
    /\ app = AppConstructed
    /\ loop = NotStarted
    /\ lastOp = "init" /\ lastArg = 0
    /\ prev = Snapshot
    /\ steps = 0

\* rendering with the flags and the pointer that steer it, between ticks
NextRender ==
    \/ SetMousePosition
    \/ SetPerformanceMode
    \/ SetCursorVisible
    \/ Update
    \/ Render

SpecRender == InitRender /\ [][NextRender]_vars

\* the same with the renderer of src/web/js/particles.js
NextRenderJs ==
    \/ SetMousePosition
    \/ SetPerformanceMode
    \/ Update
    \/ RenderParticlesJs

SpecRenderJs == InitRender /\ [][NextRenderJs]_vars

-----------------------------------------------------------------------------
(* One particle in mid-run: the force step and Particle.update on a grid of
   displacements, velocities, anchors, modes and force strengths *)

\* the canvas of the grid: 400 x 400 device pixels
TickCanvas == <<400, 400>>
\* anchors: inside the canvas, and left of it
TickAnchors == {<<Px(200), Px(200)>>, <<0 - Px(100), Px(200)>>}
\* displacements (dx, dy) from the particle to the anchor: coincident, at distance
\* 1, 5, 80, 160, 199, exactly on the radius (200) and beyond it (201)
TickOffsets == {<<0, 0>>, <<600, 800>>, <<3000, 4000>>, <<48000, 64000>>,
                <<96000, 128000>>, <<120000, 160000>>, <<0 - 199000, 0>>,
                <<0, 0 - 201000>>}
\* velocities of speed at most maxSpeed, three of them at the limit
TickVelocities == {<<0, 0>>, <<9000, 12000>>, <<0 - 9000, 0 - 12000>>, <<7800, 10400>>,
                   <<600, 0 - 800>>, <<0, 0 - 15000>>, <<10000, 10000>>}
\* forceStrength: the default, MERGE at strength 1, EXPAND at strength 1
TickStrengths == {Scale \div 2, TDiv(8 * Scale, 10), 0 - TDiv(5 * Scale, 10)}
\* <<mouse.active, mode, forceStrength>>
TickFields == {<<TRUE, m, s>> : m \in Modes, s \in TickStrengths}
                  \cup {<<FALSE, m, Scale \div 2>> : m \in Modes}

\* a coordinate the wrap of Particle.update leaves alone
InRange(c, size) ==
    ~IsNaN(c) /\ c >= 0 - Px(wrapMargin) /\ c <= Px(size) + Px(wrapMargin)

InitTick ==
    /\ \E a \in TickAnchors, d \in TickOffsets, v \in TickVelocities, f \in TickFields :
          /\ InRange(a[1] - d[1], TickCanvas[1])
          /\ InRange(a[2] - d[2], TickCanvas[2])
          /\ particles = <<[Particle(0, a[1] - d[1], a[2] - d[2], 0, Draw(0))
                              EXCEPT !.vx = v[1], !.vy = v[2]]>>
          /\ mouseX = a[1] /\ mouseY = a[2]
          /\ mouseActive = f[1] /\ mode = f[2] /\ forceStrength = f[3]
    /\ particleCount = 1 /\ nextId = 1
    /\ canvasW = TickCanvas[1] /\ canvasH = TickCanvas[2]
    /\ bgBrightness = 0 /\ bgDirection = 1
    /\ performanceMode = FALSE
    /\ lastBgBrightness = 0 - 1
    /\ bgGradient = NoGradient
    /\ painted = NotPainted
    /\ cursorVisible = TRUE
    /\ app = [AppConstructed EXCEPT !.mode = mode]
    /\ loop = NotStarted
    /\ lastOp = "init" /\ lastArg = 0
    /\ prev = Snapshot
    /\ steps = 0

NextTick ==
    \/ Update
    \/ WaveEffect
    \/ EnergyBoost
    \/ ChaosMode

SpecTick == InitTick /\ [][NextTick]_vars

-----------------------------------------------------------------------------
(* Properties.  `prev` is the store and canvas before the last operation,
   `lastOp` that operation and `lastArg` its argument. *)

\* maxSpeed ^ 2 in the unit of SpeedSq
SpeedCap == maxSpeedSq * Scale * Scale

\* the smallest store length at which AtLimit holds: ceil(1.2 * count)
Capacity(count) == (count * 12 + 9) \div 10

\* the ids spawnBurst gives k new particles, in insertion order
NewIds(k, id) == [j \in 1..k |-> id + j - 1]

\* the last n elements of a sequence
Suffix(q, n) == SubSeq(q, Len(q) - n + 1, Len(q))

C2_WrapInvariant ==
    lastOp = "update" =>
        \A i \in 1..Len(particles) :
            /\ InRange(particles[i].x, canvasW)
            /\ InRange(particles[i].y, canvasH)

\* C3 as stated: the store never holds more than 1.2 x particleCount particles
C3_AtMostTwelveTenths == Len(particles) * 10 <= particleCount * 12

\* C3: the store never holds more than ceil(1.2 x particleCount) particles
C3_AtMostCapacity == Len(particles) <= Capacity(particleCount)

\* a burst that filled the store to its capacity and evicted
C3_Witness ==
    /\ lastOp = "spawnBurst"
    /\ Len(particles) = Capacity(particleCount)
    /\ Len(prev.particles) + lastArg > Capacity(particleCount)

\* C4 as stated: with C = 1.2 x particleCount, a burst of k on a store of n gives
\* size n + k with nothing evicted when n + k <= C, and otherwise size C with
\* exactly the k oldest particles evicted
C4_EvictsWholeBurst ==
    lastOp = "spawnBurst" =>
        LET n == Len(prev.particles)
            k == lastArg
            all == Ids(prev.particles) \o NewIds(k, prev.nextId)
        IN IF (n + k) * 10 <= particleCount * 12
           THEN Ids(particles) = all
           ELSE /\ Len(particles) * 10 = particleCount * 12
                /\ Ids(particles) = Suffix(all, n)

\* C4: with cap = ceil(1.2 x particleCount), a burst of k on a store of n gives
\* size n + k with nothing evicted when n + k <= cap, and otherwise size cap with
\* exactly the n + k - cap earliest-inserted particles evicted
C4_EvictsOverflow ==
    lastOp = "spawnBurst" =>
        LET n == Len(prev.particles)
            k == lastArg
            cap == Capacity(particleCount)
            all == Ids(prev.particles) \o NewIds(k, prev.nextId)
        IN IF n + k <= cap
           THEN Ids(particles) = all
           ELSE Ids(particles) = Suffix(all, cap)

\* a burst on a store below its capacity that evicted fewer particles than it added
C4_Witness ==
    /\ lastOp = "spawnBurst"
    /\ Len(prev.particles) < Capacity(particleCount)
    /\ Len(prev.particles) + lastArg > Capacity(particleCount)
    /\ Len(particles) = Capacity(particleCount)
    /\ particles[1].id = prev.particles[1].id + Len(prev.particles) + lastArg
                             - Capacity(particleCount)

\* C5: a particle leaves the store only inside spawnBurst with the store at
\* capacity, and it is the earliest-inserted one; every other operation keeps the
\* store's particles and their order; survivors keep insertion order and burst
\* particles are appended last
C5_FifoEviction ==
    /\ \A i, j \in 1..Len(particles) : i < j => particles[i].id < particles[j].id
    /\ lastOp # "spawnBurst" => Ids(particles) = Ids(prev.particles)
    /\ lastOp = "spawnBurst" =>
          LET all == Ids(prev.particles) \o NewIds(lastArg, prev.nextId)
          IN /\ Len(particles) <= Len(all)
             /\ Ids(particles) = Suffix(all, Len(particles))
             /\ Len(particles) < Len(all) => AtLimit(Len(particles), particleCount)

\* a burst that evicted the earliest-inserted particle and kept a later one of the old store
C5_Witness ==
    /\ lastOp = "spawnBurst"
    /\ Len(prev.particles) > 1
    /\ particles[1].id > prev.particles[1].id
    /\ particles[1].id < prev.nextId
    /\ particles[Len(particles)].id = nextId - 1

\* C6: the resize handler multiplies every particle's x by newW / oldW and its y
\* by newH / oldH, old being the canvas size before the change
C6_ScalesByRatio ==
    (lastOp = "resize" /\ prev.canvasW > 0 /\ prev.canvasH > 0) =>
        \A i \in 1..Len(particles) :
            /\ particles[i].x = ScaleBy(prev.particles[i].x, canvasW, prev.canvasW)
            /\ particles[i].y = ScaleBy(prev.particles[i].y, canvasH, prev.canvasH)

\* C7: render() leaves the simulation state unchanged, in both tiers
C7_RenderPure == [][lastOp' = "render" => UNCHANGED simVars]_vars

\* a performance-tier render after a quality-tier one, on a store with particles
C7_Witness ==
    /\ lastOp = "render"
    /\ painted.tier = "performance"
    /\ bgGradient # NoGradient
    /\ Len(particles) > 0

\* C8: after a resize the next quality-tier render rebuilds the cached gradient
\* for the new canvas dimensions, so what a quality-tier render paints was built
\* for the current canvas
C8_GradientFollowsResize ==
    (lastOp = "render" /\ painted.tier = "quality") =>
        (painted.w = canvasW /\ painted.h = canvasH)

\* the squared distance from particle p to the anchor
AnchorDistSq(p) == DistSq(mouseX - p.x, mouseY - p.y)

\* the cases C9 exempts from the force
C9_Exempt(p) ==
    \/ ~mouseActive
    \/ AnchorDistSq(p) >= forceRadiusSq * SqScale
    \/ AnchorDistSq(p) <= SqScale

\* C9: in one update tick a particle's velocity changes only by friction and the
\* speed clamp when the anchor is inactive or the squared distance to it is
\* >= forceRadius^2 or <= 1, in every mode and for anchors outside the canvas
C9_NoForceOutside ==
    lastOp = "update" =>
        \A i \in 1..Len(particles) :
            C9_Exempt(prev.particles[i]) =>
                <<particles[i].vx, particles[i].vy>>
                    = Clamp(Friction(prev.particles[i].vx), Friction(prev.particles[i].vy))

\* a tick with an active anchor left of the canvas and a moving particle beyond the radius
C9_Witness ==
    /\ lastOp = "update"
    /\ mouseActive
    /\ mouseX < 0
    /\ \E i \in 1..Len(particles) :
          /\ AnchorDistSq(prev.particles[i]) >= forceRadiusSq * SqScale
          /\ prev.particles[i].vx # 0
          /\ particles[i].vx = Friction(prev.particles[i].vx)

\* the velocity component along the displacement (dx, dy), times its length
Along(vx, vy, dx, dy) == vx * Centi(dx) + vy * Centi(dy)

\* the particles C10 is about: inside the field of an active attract anchor, at an admissible speed
C10_Case(p) ==
    /\ mouseActive /\ mode = "attract"
    /\ AnchorDistSq(p) > SqScale
    /\ AnchorDistSq(p) < forceRadiusSq * SqScale
    /\ SpeedSq(p.vx, p.vy) <= SpeedCap

\* C10 as stated: the velocity component along the particle-to-anchor direction
\* is strictly greater after the tick than before it
C10_MonotonicPull ==
    lastOp = "update" =>
        \A i \in 1..Len(particles) :
            LET p == prev.particles[i]
                dx == mouseX - p.x
                dy == mouseY - p.y
            IN C10_Case(p) =>
                  Along(particles[i].vx, particles[i].vy, dx, dy) > Along(p.vx, p.vy, dx, dy)

\* C10: with a positive force strength, a particle that is not already moving
\* toward the anchor has a strictly greater velocity component along the
\* particle-to-anchor direction after the tick
C10_PullWhenNotApproaching ==
    (lastOp = "update" /\ forceStrength > 0) =>
        \A i \in 1..Len(particles) :
            LET p == prev.particles[i]
                dx == mouseX - p.x
                dy == mouseY - p.y
            IN (C10_Case(p) /\ Along(p.vx, p.vy, dx, dy) <= 0) =>
                  Along(particles[i].vx, particles[i].vy, dx, dy) > Along(p.vx, p.vy, dx, dy)

\* a tick that turned a particle moving away from the anchor toward it
C10_Witness ==
    /\ lastOp = "update" /\ forceStrength > 0
    /\ \E i \in 1..Len(particles) :
          LET p == prev.particles[i]
              dx == mouseX - p.x
              dy == mouseY - p.y
          IN /\ C10_Case(p)
             /\ Along(p.vx, p.vy, dx, dy) < 0
             /\ Along(particles[i].vx, particles[i].vy, dx, dy) > 0

\* the particles C11 and C12 are about: inside the field of an active anchor in
\* mode m, at an admissible speed
InFieldCase(p, m) ==
    /\ mouseActive /\ mode = m
    /\ AnchorDistSq(p) > SqScale
    /\ AnchorDistSq(p) < forceRadiusSq * SqScale
    /\ SpeedSq(p.vx, p.vy) <= SpeedCap

\* the repel impulse is opposite to and 1.5 times the attract impulse for the
\* same displacement and force, to the resolution of the arithmetic
RepelIsOppositeThreeHalves(dx, dy, strength) ==
    LET a == Impulse("attract", dx, dy, strength)
        r == Impulse("repel", dx, dy, strength)
    IN /\ Abs(2 * r[1] + 3 * a[1]) <= 7
       /\ Abs(2 * r[2] + 3 * a[2]) <= 7
       /\ r[1] * a[1] <= 0 /\ r[2] * a[2] <= 0

\* C11 as stated: repel strictly decreases the velocity component along the
\* particle-to-anchor direction over one tick, and its impulse is opposite to
\* and 1.5 times the attract impulse
C11_RepelDecreases ==
    lastOp = "update" =>
        \A i \in 1..Len(particles) :
            LET p == prev.particles[i]
                dx == mouseX - p.x
                dy == mouseY - p.y
            IN InFieldCase(p, "repel") =>
                  /\ Along(particles[i].vx, particles[i].vy, dx, dy) < Along(p.vx, p.vy, dx, dy)
                  /\ RepelIsOppositeThreeHalves(dx, dy, forceStrength)

\* C11: with a positive force strength, repel strictly decreases the component of
\* a particle that is not already moving away from the anchor, and the repel
\* impulse is always opposite to and 1.5 times the attract impulse
C11_RepelWhenNotReceding ==
    lastOp = "update" =>
        \A i \in 1..Len(particles) :
            LET p == prev.particles[i]
                dx == mouseX - p.x
                dy == mouseY - p.y
            IN InFieldCase(p, "repel") =>
                  /\ (forceStrength > 0 /\ Along(p.vx, p.vy, dx, dy) >= 0) =>
                        Along(particles[i].vx, particles[i].vy, dx, dy)
                            < Along(p.vx, p.vy, dx, dy)
                  /\ RepelIsOppositeThreeHalves(dx, dy, forceStrength)

\* a repel tick that slowed a particle moving toward the anchor by more than friction does
C11_Witness ==
    /\ lastOp = "update" /\ forceStrength > 0
    /\ \E i \in 1..Len(particles) :
          LET p == prev.particles[i]
              dx == mouseX - p.x
              dy == mouseY - p.y
          IN /\ InFieldCase(p, "repel")
             /\ Along(p.vx, p.vy, dx, dy) > 0
             /\ Along(particles[i].vx, particles[i].vy, dx, dy)
                    < Along(Friction(p.vx), Friction(p.vy), dx, dy)
             /\ Impulse("attract", dx, dy, forceStrength) # <<0, 0>>

\* the component of (vx, vy) perpendicular to the displacement (dx, dy), along
\* (-dy, dx), times the displacement's length
Across(vx, vy, dx, dy) == vy * Centi(dx) - vx * Centi(dy)

C13_InitHues ==
    lastOp = "init" =>
        Len(particles) = particleCount /\
        \A k \in 1..Len(particles) :
            particles[k].hue = TDiv((k - 1) * Px(360), particleCount)

\* C14: every particle's hue stays in [0, 360).
C14_HueInRange ==
    \A i \in 1..Len(particles) :
        particles[i].hue >= 0 /\ particles[i].hue < Px(360)

\* a hue step went past 360 and wrapped around
C14_Witness ==
    /\ lastOp \in {"update", "chaosMode"}
    /\ Len(prev.particles) = Len(particles)
    /\ \E i \in 1..Len(particles) :
          /\ particles[i].id = prev.particles[i].id
          /\ particles[i].hue < prev.particles[i].hue

\* C15: in every reachable state the particle system's mode is one of attract,
\* repel, swirl and equals the application's own mode field, whatever keys,
\* mode buttons and hand gestures came before.
C15_ModeAgrees ==
    mode \in Modes /\ mode = app.mode

\* a POINT gesture switched the freshly constructed application to swirl
C15_Witness ==
    /\ lastOp = "gesture" /\ GestureTypes[lastArg] = "POINT" /\ steps = 1
    /\ mode = "swirl" /\ app.mode = "swirl"

\* how many draw calls of a render are of `kind` for particle `id`
Drawn(kind, id) ==
    Cardinality({j \in 1..Len(painted.ops) : painted.ops[j] = DrawOp(kind, id)})

\* C16: a quality-tier render draws the background, then the glow of every
\* particle, then the core of every particle, then the bright centre of every
\* particle, then the cursor indicator; no glow comes after any core, and the
\* indicator is drawn iff the anchor is active and the cursor is visible.
C16_DrawOrder ==
    (lastOp = "render" /\ painted.tier = "quality") =>
        /\ painted.ops = <<Background>> \o Pass(particles, "glow")
                            \o Pass(particles, "core") \o Pass(particles, "bright")
                            \o (IF mouseActive /\ cursorVisible
                                THEN <<DrawOp("cursor", 0 - 1)>> ELSE <<>>)
        /\ \A j, k \in 1..Len(painted.ops) :
              (painted.ops[j].op = "core" /\ painted.ops[k].op = "glow") => k < j

\* C17: with performanceMode set a render does one flat background fill and
\* exactly one solid-circle fill per particle, creates no gradient object
\* (background, glow or cursor) and has no glow or bright-centre pass.
C17_PerformanceFlat ==
    (lastOp = "render" /\ performanceMode) =>
        /\ painted.tier = "performance"
        /\ Drawn("background", 0 - 1) = 1
        /\ \A i \in 1..Len(particles) : Drawn("core", particles[i].id) = 1
        /\ \A j \in 1..Len(painted.ops) : painted.ops[j].op \notin {"glow", "bright"}
        /\ painted.grads = <<>>

\* the render created a new background gradient
Rebuilt(pt) == \E j \in 1..Len(pt.grads) : pt.grads[j] = "background"

\* C18: with a fixed canvas size, over any ticks and quality-tier renders, a
\* render creates a new background gradient iff the rounded bgBrightness
\* differs from the rounded value at the previous rebuild (always on the first
\* quality render), and the gradient painted is the one for the current
\* rounded brightness.
C18_GradientCache ==
    /\ [](lastBgBrightness = bgGradient.bright)
    /\ [][(lastOp' = "render" /\ painted'.tier = "quality") =>
            /\ Rebuilt(painted') <=> (Round(bgBrightness) # lastBgBrightness)
            /\ lastBgBrightness = 0 - 1 => Rebuilt(painted')
            /\ painted'.bright = Round(bgBrightness')
            /\ bgGradient'.bright = Round(bgBrightness')]_vars

\* a quality render that found the cached gradient still current and reused it
C18_Witness ==
    /\ lastOp = "render" /\ painted.tier = "quality" /\ ~painted.threw
    /\ ~Rebuilt(painted)
    /\ painted.bright = Round(bgBrightness)

\* C19: every animation tick runs update over all particles, then render, then
\* schedules exactly one next tick; input events come only between ticks, so
\* render never sees a partly advanced store, and after a single start() at
\* most one frame callback is pending.
C19_TickSchedulesNext ==
    /\ loop.pending <= 1
    /\ lastOp \in {"start", "animate"} =>
          /\ loop.pending = 1
          /\ ~painted.threw
          /\ Len(painted.ops) > Len(particles)

\* C20: no core operation divides by zero or yields an undefined number in any
\* reachable state, including after the viewport is resized to zero width or
\* height and when the anchor coincides with a particle.
C20_NoUndefinedNumber ==
    \A i \in 1..Len(particles) :
        /\ ~IsNaN(particles[i].x) /\ ~IsNaN(particles[i].y)
        /\ ~IsNaN(particles[i].vx) /\ ~IsNaN(particles[i].vy)

\* the screen anchor of a hand of the last frame
HandAnchor(h) == <<ScreenX(h.x, canvasW), ScreenY(h.y, canvasH)>>

\* C21: when a hand-tracking frame reports two hands, the force of the next
\* tick accounts for both: the one anchor the tick uses is a blended anchor and
\* not the anchor of one hand with the other hand's dropped.
C21_BothHandsCount ==
    (lastOp = "handsDetected" /\ Len(app.hands.list) = 2
        /\ HandAnchor(app.hands.list[1]) # HandAnchor(app.hands.list[2])) =>
        /\ mouseActive
        /\ <<mouseX, mouseY>> # HandAnchor(app.hands.list[1])
        /\ <<mouseX, mouseY>> # HandAnchor(app.hands.list[2])

\* the strength of the two-hand gesture of the last frame
LastStrength(a) == FrameTwoHand(a.hands.list).strength

\* with a negative strength the impulse of mode m on p is the exact opposite of
\* the impulse the same positive strength gives
Reversed(p, m) ==
    LET dx == mouseX - p.x
        dy == mouseY - p.y
        neg == Impulse(m, dx, dy, forceStrength)
        pos == Impulse(m, dx, dy, 0 - forceStrength)
    IN  neg[1] = 0 - pos[1] /\ neg[2] = 0 - pos[2]

\* p is inside the force radius of the anchor and not on it
InReach(p) ==
    AnchorDistSq(p) > SqScale /\ AnchorDistSq(p) < forceRadiusSq * SqScale

\* the attract impulse on p has no component toward the anchor
PushedAway(p) ==
    LET imp == Impulse("attract", mouseX - p.x, mouseY - p.y, forceStrength)
    IN  Along(imp[1], imp[2], mouseX - p.x, mouseY - p.y) <= 0

\* C22: forceStrength is written only by the two-hand gesture handler (0.8 x
\* strength on MERGE, -0.5 x strength on EXPAND) and nothing puts the default
\* back: every later step, also mouse-driven ones after hand tracking stopped,
\* keeps the overwritten value; after EXPAND it is negative and the force of
\* every mode points the opposite way.
C22_StrengthSticks ==
    /\ [][(forceStrength' # forceStrength =>
                (lastOp' = "handsDetected" /\ app'.hands.twoHand # "none"))
           /\ ((lastOp' = "handsDetected" /\ app'.hands.twoHand = "MERGE") =>
                (forceStrength' = TDiv(8 * LastStrength(app'), 10) /\ forceStrength' > 0))
           /\ ((lastOp' = "handsDetected" /\ app'.hands.twoHand = "EXPAND") =>
                (forceStrength' = 0 - TDiv(5 * LastStrength(app'), 10)
                    /\ forceStrength' < 0))]_vars
    /\ [](\A i \in 1..Len(particles), m \in Modes :
            (forceStrength < 0 /\ InReach(particles[i])) =>
                (Reversed(particles[i], m) /\ PushedAway(particles[i])))

\* hand tracking was stopped after an EXPAND and the mouse drives the anchor
\* again, with the force strength still negative and a particle in its field
C22_Witness ==
    /\ lastOp = "mouseMove" /\ ~app.handTrackingEnabled /\ mouseActive
    /\ app.hands.twoHand = "EXPAND"
    /\ forceStrength < 0
    /\ \E i \in 1..Len(particles) :
          /\ InReach(particles[i])
          /\ Impulse(mode, mouseX - particles[i].x, mouseY - particles[i].y,
                     forceStrength) # <<0, 0>>

\* the mode the application is in after a hand with gesture g, coming from mode m
ModeAfter(g, m) ==
    CASE g = "PALM" -> "attract"
      [] g = "FIST" -> "repel"
      [] g = "POINT" -> "swirl"
      [] OTHER -> m

\* a burst of k particles at (x, y) went from store `old` with next id `id`
\* into store `new`: k ids were given out and the store ends with the last
\* min(k, capacity) particles of the burst, created at (x, y)
BurstAdded(old, new, id, newId, k, x, y) ==
    LET n == Min(k, Capacity(particleCount)) IN
    /\ newId = id + k
    /\ Len(new) = Min(Len(old) + k, Capacity(particleCount))
    /\ \A j \in 1..n :
          LET q == new[Len(new) - n + j] IN
          q.id = id + k - n + j - 1 /\ q.x = x /\ q.y = y

\* C24: after the application handles a frame with a single hand whose smoothed
\* gesture is g, the mode is attract for PALM, repel for FIST, swirl for POINT
\* and unchanged for PINCH, SPREAD and NEUTRAL; PINCH adds a burst of 5 and
\* SPREAD a burst of 20 particles at the anchor, and no other gesture changes
\* the store.
C24_GestureMapping ==
    [][(lastOp' = "handsDetected" /\ Len(app'.hands.list) = 1) =>
          LET h == app'.hands.list[1] IN
          /\ mode' = ModeAfter(h.gesture, mode)
          /\ app'.mode = ModeAfter(h.gesture, app.mode)
          /\ mouseActive' /\ <<mouseX', mouseY'>> = HandAnchor(h)
          /\ h.gesture = "PINCH" =>
                BurstAdded(particles, particles', nextId, nextId', pinchBurst,
                           mouseX', mouseY')
          /\ h.gesture = "SPREAD" =>
                BurstAdded(particles, particles', nextId, nextId', spreadBurst,
                           mouseX', mouseY')
          /\ h.gesture \notin {"PINCH", "SPREAD"} =>
                (particles' = particles /\ nextId' = nextId)]_vars

\* a POINT hand switched the mode to swirl, in a store a PINCH had grown before
C24_Witness ==
    /\ lastOp = "handsDetected" /\ Len(app.hands.list) = 1
    /\ app.hands.list[1].gesture = "POINT"
    /\ mode = "swirl"
    /\ Len(particles) = Len(prev.particles) /\ Len(particles) > particleCount

\* C30: while hand tracking is enabled, mouse move, mouse enter and mouse leave
\* events leave the anchor position and the anchor-active flag unchanged; only
\* hand results and touch events move or toggle the anchor.
C30_MouseIgnored ==
    [][app.handTrackingEnabled =>
          /\ lastOp' \in {"mouseMove", "mouseEnter", "mouseLeave"} =>
                UNCHANGED <<mouseX, mouseY, mouseActive>>
          /\ (app'.handTrackingEnabled
                /\ <<mouseX', mouseY', mouseActive'>> # <<mouseX, mouseY, mouseActive>>) =>
                lastOp' \in {"handsDetected", "trackingLost", "touchMove", "touchEnd"}]_vars

\* the mouse moved while a hand held the anchor, and the anchor stayed with the hand
C30_Witness ==
    /\ lastOp = "mouseMove" /\ app.handTrackingEnabled /\ mouseActive
    /\ Len(app.hands.list) = 1
    /\ <<mouseX, mouseY>> = HandAnchor(app.hands.list[1])
    /\ <<mouseX, mouseY>> \notin Anchors

\* the callbacks fired so far that are among `names`, in order
Fired(names) == SelectSeq(app.recorder.log, LAMBDA c : c.cb \in names)

\* C23: every recording started by start() stops by itself exactly when the
\* duration (5000 ms) has passed since its own start unless stop() is called
\* earlier: none runs longer, and the timer of an earlier recording (stopped or
\* failed) never cuts a later recording short.
C23_StopsOnTime ==
    \A k \in 1..Len(app.recorder.recs) :
        LET rec == app.recorder.recs[k] IN
        /\ rec.state = "recording" => app.recorder.now <= rec.startedAt + duration
        /\ rec.stoppedBy = "timer" => rec.stoppedAt = rec.startedAt + duration

\* C26: the onStart and onStop callbacks strictly alternate beginning with
\* onStart, for every sequence of start() and stop() calls and recorder
\* events; start() while recording creates no second recorder, start() on an
\* unsupported browser only reports an error, stop() while idle does nothing.
C26_Alternate ==
    LET q == Fired({"onStart", "onStop"}) IN
    /\ \A j \in 1..Len(q) : q[j].cb = IF j % 2 = 1 THEN "onStart" ELSE "onStop"
    /\ ~app.recorder.supported =>
          (Len(app.recorder.recs) = 0 /\ ~app.recorder.isRecording /\ Len(q) = 0)
    /\ Cardinality({k \in 1..Len(app.recorder.recs) :
                       app.recorder.recs[k].state = "recording"}) <= 1

\* the chunks recorder k has emitted, in order
Emitted(k) == [n \in 1..app.recorder.recs[k].emitted |-> Chunk(k, n)]

\* the callbacks of kind cb fired by the stop event of recorder k
FiredBy(cb, k) ==
    SelectSeq(app.recorder.log, LAMBDA c : c.cb = cb /\ c.rec = k)

\* C27: each recording that produced data yields exactly one onComplete whose
\* blob is exactly the chunks its own MediaRecorder emitted between its start
\* and its stop event, in order; a recording without data yields
\* onError('No recording data') and no onComplete; also when a new recording
\* starts before the stop event of the previous recorder is delivered.
C27_OwnChunks ==
    \A k \in 1..Len(app.recorder.recs) :
        (app.recorder.recs[k].state = "inactive"
            /\ app.recorder.recs[k].stoppedBy # "error") =>
            IF app.recorder.recs[k].emitted > 0
            THEN /\ Len(FiredBy("onComplete", k)) = 1
                 /\ FiredBy("onComplete", k)[1].blob = Emitted(k)
            ELSE /\ Len(FiredBy("onComplete", k)) = 0
                 /\ Len(FiredBy("onError", k)) = 1

\* C25: once audio is initialised and sound is enabled, the layers of the drone
\* startAmbient created last are all still running: no timer of an earlier
\* stopAmbient has stopped or discarded them.
C25_AmbientRuns ==
    (app.audio.initialized /\ app.audio.enabled) =>
        /\ app.audio.created > 0
        /\ \A l \in Layers : Layer(app.audio.created, l) \in app.audio.playing

\* the measurements detectGesture takes of the landmarks it was given
Fingers == CountExtendedFingers(app.tracker.landmarks)
Pinching ==
    DistanceSq(app.tracker.landmarks[THUMB_TIP], app.tracker.landmarks[INDEX_TIP])
        < PINCH_THRESHOLD * PINCH_THRESHOLD
Wide == FingerSpreadSq(app.tracker.landmarks) > SPREAD_THRESHOLD * SPREAD_THRESHOLD
IndexOut == IsFingerExtended(app.tracker.landmarks, INDEX_TIP)

LastN(q, n) == SubSeq(q, Len(q) - n + 1, Len(q))
\* the first index of g in buffer
FirstAt(buffer, g) == CHOOSE i \in 1..Len(buffer) :
    buffer[i] = g /\ \A j \in 1..(i - 1) : buffer[j] # g

\* C29: for each hand id the buffer holds the last min(n, 5) raw types in
\* arrival order, whatever the other hand received; the type returned is a
\* most frequent type of the buffer, among equally frequent ones the one whose
\* first occurrence is earliest, and the raw type is reported with it.
C29_Smoothing ==
    /\ \A handId \in {"left", "right"} :
          LET seen == app.tracker.seen[handId]
          IN  app.tracker.gestureBuffer[handId] = LastN(seen, Min(Len(seen), bufferSize))
    /\ app.tracker.gesture # NoGesture =>
          LET g == app.tracker.gesture
              buffer == app.tracker.gestureBuffer[g.hand]
          IN  /\ g.raw = app.tracker.seen[g.hand][Len(app.tracker.seen[g.hand])]
              /\ \E i \in 1..Len(buffer) : buffer[i] = g.type
              /\ \A i \in 1..Len(buffer) :
                    \/ CountOf(buffer, buffer[i]) < CountOf(buffer, g.type)
                    \/ /\ CountOf(buffer, buffer[i]) = CountOf(buffer, g.type)
                       /\ FirstAt(buffer, g.type) <= FirstAt(buffer, buffer[i])

\* a hand has sent more than five types, the oldest has left the buffer, two
\* types are equally frequent and the one returned is not the raw one
C29_Witness ==
    /\ app.tracker.gesture # NoGesture
    /\ Len(app.tracker.seen[app.tracker.gesture.hand]) > bufferSize
    /\ Len(app.tracker.seen.left) > 0 /\ Len(app.tracker.seen.right) > 0
    /\ app.tracker.gesture.type # app.tracker.gesture.raw
    /\ LET buffer == app.tracker.gestureBuffer[app.tracker.gesture.hand]
       IN  CountOf(buffer, app.tracker.gesture.raw) = CountOf(buffer, app.tracker.gesture.type)

\* the step is one of the events that switch the anchor off
AnchorReleased ==
    \/ lastOp' \in {"trackingLost", "stopHandTracking", "touchEnd"}
    \/ lastOp' = "mouseLeave" /\ ~app.handTrackingEnabled

\* C31: after tracking is lost, hand tracking is stopped, the mouse leaves the
\* canvas (hand tracking off) or a touch ends, the anchor is inactive; only a
\* pointer move, a mouse enter, a touch or a hands-detected event makes it
\* active again, and a tick with an inactive anchor moves every particle by
\* its own velocity, friction and wrap alone.
C31_ReleasedAnchor ==
    [][/\ AnchorReleased => ~mouseActive'
       /\ (~mouseActive /\ mouseActive') =>
              lastOp' \in {"mouseMove", "mouseEnter", "touchMove", "handsDetected"}
       /\ (~mouseActive /\ lastOp' = "update") =>
              particles' = [i \in 1..Len(particles) |->
                               ParticleUpdate(particles[i], canvasW, canvasH)]]_vars

\* a tick ran after the hand was lost, with a particle inside the force radius
\* of the anchor the hand left behind
C31_Witness ==
    /\ lastOp = "update" /\ ~mouseActive /\ app.handTrackingEnabled
    /\ Len(app.hands.list) = 1
    /\ <<mouseX, mouseY>> = HandAnchor(app.hands.list[1])
    /\ \E i \in 1..Len(prev.particles) : InReach(prev.particles[i])

\* C34: bgBrightness stays within [-0.1, 3.1] after any number of ticks, passing
\* 0 and 3 by at most one step of 0.1; bgDirection is +1 or -1; a tick computes
\* the particles from the particles, the anchor, the mode, the strength and
\* the canvas alone.
C34_Breathing ==
    /\ [](bgBrightness >= 0 - Scale \div 10 /\ bgBrightness <= Px(3) + Scale \div 10)
    /\ [](bgDirection \in {1, 0 - 1})
    /\ [][particles' =
             [i \in 1..Len(particles) |->
                 UpdateParticle(particles[i], mouseX, mouseY, mouseActive, mode,
                                forceStrength, canvasW, canvasH)]]_vars

\* the brightness has been up to 3.1 and is down at -0.1, about to rise again
C34_Witness ==
    /\ lastOp = "update" /\ lastArg > 60
    /\ bgBrightness = 0 - Scale \div 10 /\ bgDirection = 1

\* C32: onTrackingLost fires only on the step from a frame with hands to a
\* frame without: the first callback is never onTrackingLost, two
\* onTrackingLost calls always have an onHandsDetected between them, and a
\* run of empty frames fires it once, at its first frame.
C32_LostOnTransition ==
    /\ [](LET calls == app.tracker.calls
          IN  \A i \in 1..Len(calls) :
                calls[i] = "onTrackingLost" => (i > 1 /\ calls[i - 1] = "onHandsDetected"))
    /\ [][(lastOp' = "trackingLost" => lastOp = "handsDetected")
           /\ (lastOp' = "noHands" => lastOp # "handsDetected")]_vars

\* a second frame without hands has come and has fired nothing
C32_Witness ==
    /\ lastOp = "noHands"
    /\ app.tracker.calls = <<"onHandsDetected", "onTrackingLost">>

\* the hand labels and gestures of a frame, in order
Shown(hs) == [i \in 1..Len(hs) |-> <<hs[i].isLeft, hs[i].gesture>>]

\* C33: a gesture sound cue is played only when a hand's gesture changed: a
\* frame in which every hand shows the gesture it showed in the frame before
\* plays no cue, with one hand or with two.
C33_CueOnChange ==
    [][(lastOp = "handsDetected" /\ lastOp' = "handsDetected"
          /\ Shown(app'.hands.list) = Shown(app.hands.list)) =>
          app'.cues = app.cues]_vars

\* C35: a two-hand gesture is attached to a frame only when a left and a right
\* hand are both in that frame, and it is the gesture of the palm centres of
\* these two hands; MERGE and EXPAND exclude each other and their strength is
\* in (0, 1].
C35_TwoHandsOfFrame ==
    LET g == app.tracker.twoHandGesture
        hs == app.hands.list
    IN  g.type # "none" =>
          /\ lastOp = "handsDetected" /\ Len(hs) = 2
          /\ \E i, j \in 1..2 :
                /\ hs[i].isLeft /\ ~hs[j].isLeft
                /\ g = DetectTwoHandGesture(hs[i], hs[j])
          /\ g.strength > 0 /\ g.strength <= Scale

\* C36: between callbacks the isRecording flag of the application equals the
\* isRecording flag of the recorder, also after a MediaRecorder error and
\* after a start on a browser without recording support, so that
\* toggleRecording starts a recording when none runs and stops the running one.
C36_FlagsAgree == app.isRecording = app.recorder.isRecording

====
